---- MODULE Spec2Model ----
(***************************************************************************)
(* Model of the NexusAI workflow orchestration and resilience layer:       *)
(*   - CircuitBreaker             (backend/utils/error_handling.py)        *)
(*   - TicketProcessor            (backend/workflow/ticket_processor.py)   *)
(*   - MasterAgent.process_ticket (backend/agents/master_agent.py)         *)
(*   - PhishGuardAgent protocol   (backend/agents/phishguard_agent.py)     *)
(*                                                                         *)
(* SpecCB is one CircuitBreaker shared by concurrent callers of an async   *)
(* callable; Spec is the TicketProcessor with its tickets' tasks.          *)
(***************************************************************************)
EXTENDS Integers, Sequences, FiniteSets, TLC

\* ------------------------------------------------------------------ bounds
NumCallers == 2
MaxCalls == 6
MaxTime == 60
MaxTickets == 2
MaxEarlier == 3
\* hours the wall clock of the cleanup runs for
MaxHours == 3
\* largest max_age_hours handed to cleanup_completed_workflows
MaxAge == 2

\* hours that pass, and the largest max_age_hours, while tickets are in flight
MaxInFlightHours == 1

MaxInFlightAge == 1
\* longest run, in seconds, and most runs whose metrics are followed
MaxProcessingTime == 2

MaxFinished == 4
\* workflows a processor has started when its health is asked for
MaxProcessed == 10
\* the ids uuid4 can give, cut down from 16^8
IdSpace == 4
\* create_ticket calls in a run of the id generator
MaxCreated == 4
\* largest max_retries a callable is wrapped with
MaxRetries == 3
\* candidate URLs of one contain phase
MaxUrls == 2
MaxBaseDelay == 2
MaxMaxDelay == 5
MaxBackoffFactor == 2

\* ------------------------------------------------------- program constants
\* CircuitBreaker(service_name="master_agent", failure_threshold=3, recovery_timeout=30.0)
failure_threshold == 3
recovery_timeout == 30

\* CircuitBreaker(service_name="phishguard_agent", failure_threshold=2, recovery_timeout=60.0)
phishguard_failure_threshold == 2
phishguard_recovery_timeout == 60

\* @CircuitBreaker(service_name="gemini_classification", failure_threshold=3, recovery_timeout=30.0)
gemini_failure_threshold == 3
gemini_recovery_timeout == 30

\* PhishGuardAgent.process_security_ticket: total_phases = 4
total_phases == 4
\* CircuitBreaker(service_name="phishguard_mcp", failure_threshold=5, recovery_timeout=60.0)
mcp_failure_threshold == 5
mcp_recovery_timeout == 60
\* @retry_with_backoff(max_retries=2, base_delay=1.0) on _safe_mcp_call
mcp_max_retries == 2
default_base_delay == 1
default_max_delay == 60
default_backoff_factor == 2

\* last_failure_time = None
NoTime == -1

Callers == 1..NumCallers
\* the clock advances in steps that hit the recovery_timeout boundary exactly
TimeStep == recovery_timeout

\* 'SIM-' + the first 8 hex digits of a uuid4
TicketIds == 1..IdSpace

VARIABLES
    cb,            \* the CircuitBreaker instance: state, failure_count, last_failure_time
    expected_all,  \* TRUE: expected_exception = Exception; FALSE: a restricted tuple
    pc,            \* per caller: "idle" | "awaiting" (suspended in `await func(...)`)
    entry,         \* per caller: breaker state seen by _call_async when the call came in
    now,           \* time.time()
    invocations,   \* number of times the wrapped function has been invoked
    consec,        \* failures of the expected kind since the last successful return
    clean,         \* no call has returned or raised an unexpected kind yet
    last_event     \* what the last call through the breaker did

VARIABLES
    heap,          \* per ticket id: the dict create_ticket built ("orig") and the
                   \* fallback copy _process_with_master_agent may make ("copy")
    registered,    \* active_workflows: which of the two dicts the id maps to, or "none"
    holds,         \* which dict the ticket's task is working on
    task,          \* per ticket id: where its process_ticket_async task stands
    agent_circuit_breakers, \* TicketProcessor.agent_circuit_breakers, by agent name
    workflow_metrics,       \* TicketProcessor.workflow_metrics
    master_agent,  \* set_agents gave a Master Agent
    phishguard_agent, \* set_agents gave a PhishGuard Agent
    result,        \* per ticket id: what process_ticket_async returned
    excepted,      \* per ticket id: an exception was raised inside process_ticket_async
    phases_attempted, \* per ticket id: the phase handlers process_security_ticket has called
    model,         \* MasterAgent.model is set (GEMINI_API_KEY was there)
    gemini_classification, \* the breaker that decorates MasterAgent._classify_with_gemini
    classified_via \* per ticket id: the path MasterAgent.classify_ticket took for it

VARIABLES
    returned,      \* per ticket id: the outcome of an agent method called on its own
    utcnow,        \* datetime.utcnow(), in hours
    updated_at,    \* per ticket id: the hour its registry entry's 'updated_at' names
    updated_at_iso, \* per ticket id: datetime.fromisoformat accepts its 'updated_at'
    last_cleanup,  \* the last call of cleanup_completed_workflows and what it returned
    system_health  \* the tag get_workflow_metrics returned in the last step, or "none"

VARIABLES
    ids_assigned,  \* the ids generate_ticket_id has returned, in order
    active_ids     \* active_workflows by id: which create_ticket call's dict it holds, 0 for none

VARIABLES
    socketio_client, \* the event sink: "none", "ok", or "raises" (emit raises on every call)
    sink_escaped   \* an exception of the sink has left emit_workflow_update or log_action

VARIABLES
    max_retries,   \* retry_with_backoff(max_retries=...) of the wrapped callable
    wrapper        \* per caller: its call of async_wrapper (position, attempt, counts)

VARIABLES
    mcp_client,    \* PhishGuardAgent.mcp_client is set (a tool channel was given)
    mcp_circuit_breaker, \* PhishGuardAgent.mcp_circuit_breaker
    contain,       \* the running contain_threat: position, URL, attempt, results, counts
    block          \* per candidate URL: what its block_malicious_url call did

VARIABLES
    generate_content_calls, \* per ticket id: calls of model.generate_content made to classify it
    classify_error \* per ticket id: what the last primary classifier call raised, or "none"

VARIABLES
    base_delay,    \* retry_with_backoff: the first delay
    max_delay,     \* retry_with_backoff: the cap on one delay
    backoff_factor \* retry_with_backoff: the multiplier applied after each sleep

VARIABLES
    emitted        \* per ticket id: the status of every workflow_update the sink took for it, in order

VARIABLES
    copied_at      \* per ticket id: the 'updated_at' its fallback copy carries, in hours

VARIABLES
    average_processing_time, \* workflow_metrics['average_processing_time'], a fraction; NotTracked where the durations of the runs are left out
    resolved_time  \* the processing times of the tickets that finished resolved, summed

cbvars == <<cb, expected_all, pc, entry, invocations, consec, clean, last_event>>

wfvars == <<heap, registered, holds, task, agent_circuit_breakers, workflow_metrics,
            master_agent, phishguard_agent, result, excepted, phases_attempted,
            model, gemini_classification, classified_via>>

dcvars == <<returned, utcnow, updated_at, updated_at_iso, last_cleanup,
           system_health>>

idvars == <<ids_assigned, active_ids>>

sinkvars == <<socketio_client, sink_escaped>>

retryvars == <<max_retries, wrapper>>

mcpvars == <<mcp_client, mcp_circuit_breaker, contain, block>>

gemvars == <<generate_content_calls, classify_error>>

delayvars == <<base_delay, max_delay, backoff_factor>>

eventvars == <<emitted>>

stampvars == <<copied_at>>

avgvars == <<average_processing_time, resolved_time>>

vars == <<now, cbvars, wfvars, dcvars, idvars, sinkvars, retryvars, mcpvars, gemvars, delayvars, eventvars, stampvars, avgvars>>

\* ------------------------------------------------------- tickets and tasks
Tickets == 1..MaxTickets

\* what a subject line is to the agents: empty after strip(), or carrying /
\* not carrying one of MasterAgent._fallback_classification's keywords
Subjects == {"empty", "keyword", "plain"}

\* additional_data of create_ticket: nothing, or a processing_attempts entry
\* that is no number
AdditionalData == {"none", "text_attempts", "set_attempts"}

\* additional_data of create_ticket: nothing, or the findings of an analysis
\* made elsewhere, {'analysis_results': {...}}
ResultData == {"none", "phase_results"}

Terminal == {"resolved", "escalated", "failed"}

\* TicketProcessor.status_definitions
Statuses == {"received", "processing", "classified", "delegating", "working"} \cup Terminal

\* positions of a task between two suspension points: no other task runs there
HeldPcs == {"started", "triaged", "classified", "delegating", "working", "specialist_done"}

\* positions at which the task is suspended in an await (or not running)
FreePcs == {"new", "scheduled", "general_sleep", "pg_activated", "in_analyze",
            "in_contain", "in_eradicate", "in_document", "documented", "pg_final",
            "done", "raised"}

\* the event loop runs one task at a time, up to its next suspension point
CanRun(t) == \A u \in Tickets : u # t => task[u] \notin HeldPcs

LoopIdle == \A u \in Tickets : task[u] \notin HeldPcs

NoTicket ==
    [subject |-> "none", status |-> "none", classification |-> "none",
     assigned_agent |-> "none", priority |-> "none", escalation_level |-> "none",
     analysis_results |-> FALSE, containment_results |-> FALSE,
     eradication_results |-> FALSE, remediation_summary |-> FALSE,
     summary_phases_completed |-> <<>>,  \* remediation_summary['phases_completed']
     phases_set |-> FALSE, phases_completed |-> <<>>, phases_failed |-> <<>>,
     requires_manual_intervention |-> FALSE, fallback_used |-> FALSE,
     error |-> FALSE, processing_error |-> FALSE, attempts_numeric |-> TRUE,
     attempts_serialisable |-> TRUE,
     processing_attempts |-> 0]

\* the average where a specification leaves the durations of the runs out
NotTracked == [num |-> 0, den |-> 0]

\* workflow_metrics['average_processing_time'] after __init__, line 75
NoAverage == [num |-> 0, den |-> 1]

NoBreaker == [state |-> "none", failure_count |-> 0, last_failure_time |-> NoTime]

\* the ticket dict active_workflows holds for id t (NoTicket: no entry)
Registry(t) == IF registered[t] = "none" THEN NoTicket ELSE heap[t][registered[t]]

\* the ticket dict the task of t is working on
Held(t) == heap[t][holds[t]]

\* ------------------------------------------------------- CircuitBreaker
\* CircuitBreaker.__init__
NewBreaker == [state |-> "CLOSED", failure_count |-> 0, last_failure_time |-> NoTime]

\* a breaker whose cooldown comparison is inverted
should_attempt_reset_inverted(b, t, timeout) ==
    IF b.last_failure_time = NoTime THEN TRUE
    ELSE t - b.last_failure_time <= timeout

\* CircuitBreaker._should_attempt_reset
should_attempt_reset(b, t, timeout) ==
    IF b.last_failure_time = NoTime THEN TRUE
    ELSE t - b.last_failure_time >= timeout

\* a breaker whose recovery closes it but keeps the failures counted so far
on_success_keeps_count(b) ==
    IF b.state = "HALF_OPEN" THEN [b EXCEPT !.state = "CLOSED"] ELSE b

\* CircuitBreaker._on_success
on_success(b) ==
    IF b.state = "HALF_OPEN"
    THEN [b EXCEPT !.state = "CLOSED", !.failure_count = 0]
    ELSE b

\* a breaker that opens one failure late
on_failure_late(b, t, threshold) ==
    LET n == b.failure_count + 1 IN
    [b EXCEPT !.failure_count = n,
              !.last_failure_time = t,
              !.state = IF n > threshold THEN "OPEN" ELSE @]

\* a breaker that records the time of the first failure only
on_failure_first_time(b, t, threshold) ==
    LET n == b.failure_count + 1 IN
    [b EXCEPT !.failure_count = n,
              !.last_failure_time = IF @ = NoTime THEN t ELSE @,
              !.state = IF n >= threshold THEN "OPEN" ELSE @]

\* CircuitBreaker._on_failure
on_failure(b, t, threshold) ==
    LET n == b.failure_count + 1 IN
    [b EXCEPT !.failure_count = n,
              !.last_failure_time = t,
              !.state = IF n >= threshold THEN "OPEN" ELSE @]

\* CircuitBreaker._call_async, lines 236-241: the gate in front of the call
call_rejected(b, t, timeout) ==
    b.state = "OPEN" /\ ~should_attempt_reset(b, t, timeout)

call_admitted(b, t, timeout) ==
    IF b.state = "OPEN" /\ should_attempt_reset(b, t, timeout)
    THEN [b EXCEPT !.state = "HALF_OPEN"]
    ELSE b

\* ------------------------------------------------ the event sink
\* socketio_client.emit(...)
sink_emit(sink) == IF sink = "raises" THEN "raised" ELSE "returned"

\* an emit_workflow_update without its try
emit_workflow_update_unguarded(sink) ==
    IF sink = "none" THEN "returned" ELSE sink_emit(sink)

\* TicketProcessor.emit_workflow_update: the emit, and in the except clause a
\* second, shorter emit inside a try of its own with a bare except
emit_workflow_update(sink) ==
    IF sink = "none" THEN "returned"
    ELSE IF sink_emit(sink) = "returned" THEN "returned"
    ELSE IF sink_emit(sink) = "returned" THEN "returned"
    ELSE "returned"

\* PhishGuardAgent.log_action, lines 121-131: the emit in a try of its own
\* (no tool channel here, self.mcp_client is None)
log_action(sink) ==
    IF sink = "none" THEN "returned"
    ELSE IF sink_emit(sink) = "returned" THEN "returned"
    ELSE "returned"

\* the update of create_ticket or of a specialist step raises
EmitRaised == emit_workflow_update(socketio_client) = "raised"

\* a log_action of a phase raises
LogRaised == log_action(socketio_client) = "raised"

\* ------------------------------------------------ SpecCB: one shared breaker
\* the candidate URLs of a contain phase, by their place in malicious_urls
Urls == 1..MaxUrls

\* contain_threat is not running
NoContain == [pc |-> "idle", total_urls |-> 0, url |-> 0, step |-> "none",
              attempt |-> 0, containment_results |-> <<>>,
              successful_blocks |-> 0, failed_blocks |-> 0,
              summary |-> [total_urls |-> 0, successful_blocks |-> 0,
                           failed_blocks |-> 0]]

\* no block_malicious_url call has been made for the URL
NoBlock == [safe_calls |-> 0, tool_calls |-> 0, entry_open |-> FALSE]

\* async_wrapper has not been called
NoCall == [pc |-> "idle", attempt |-> 0, invoked |-> 0, failures |-> 0,
           other |-> FALSE,  \* other: an attempt raised outside retryable_exceptions
           delay |-> 0,      \* the wrapper's local `delay`
           slept |-> <<>>]   \* the actual_delay of every asyncio.sleep so far

\* no agent method has been called on its own for this ticket id
NoReturn == [op |-> "none", subject |-> "none", raised |-> FALSE, value |-> "none"]

\* TicketProcessor.__init__ (no ticket yet), set_agents
InitRegistry ==
    /\ heap = [t \in Tickets |-> [orig |-> NoTicket, copy |-> NoTicket]]
    /\ registered = [t \in Tickets |-> "none"]
    /\ holds = [t \in Tickets |-> "orig"]
    /\ task = [t \in Tickets |-> "new"]
    /\ result = [t \in Tickets |-> NoTicket]
    /\ excepted = [t \in Tickets |-> FALSE]
    /\ phases_attempted = [t \in Tickets |-> <<>>]
    /\ classified_via = [t \in Tickets |-> "none"]
    /\ returned = [t \in Tickets |-> NoReturn]
    /\ utcnow = 0
    /\ updated_at = [t \in Tickets |-> 0]
    /\ updated_at_iso = [t \in Tickets |-> TRUE]
    /\ last_cleanup = [max_age_hours |-> 0, cleaned_count |-> 0, even |-> TRUE]
    /\ system_health = "none"
    /\ copied_at = [t \in Tickets |-> 0]
    /\ emitted = [t \in Tickets |-> <<>>]
    /\ generate_content_calls = [t \in Tickets |-> 0]
    /\ classify_error = [t \in Tickets |-> "none"]
    /\ contain = NoContain
    /\ block = [u \in Urls |-> NoBlock]
    /\ wrapper = [c \in Callers |-> NoCall]
    /\ sink_escaped = FALSE
    /\ ids_assigned = <<>>
    /\ active_ids = [id \in TicketIds |-> 0]

\* the registry of a processor whose runs are followed without their durations
InitTickets ==
    /\ InitRegistry
    /\ average_processing_time = NotTracked
    /\ resolved_time = 0

InitProcessor ==
    /\ InitTickets
    /\ mcp_client = FALSE
    /\ mcp_circuit_breaker = NewBreaker
    /\ max_retries = 0
    /\ base_delay = default_base_delay
    /\ max_delay = default_max_delay
    /\ backoff_factor = default_backoff_factor
    /\ socketio_client = "none"
    /\ agent_circuit_breakers = [a \in {"master_agent", "phishguard_agent"} |-> NoBreaker]
    /\ workflow_metrics = [total_processed |-> 0, successful_workflows |-> 0,
                           failed_workflows |-> 0, escalated_workflows |-> 0]
    /\ gemini_classification = NewBreaker

InitCB ==
    /\ InitProcessor
    /\ master_agent = TRUE
    /\ phishguard_agent = TRUE
    /\ model = TRUE
    /\ cb = NewBreaker
    /\ expected_all \in BOOLEAN
    /\ pc = [c \in Callers |-> "idle"]
    /\ entry = [c \in Callers |-> "CLOSED"]
    /\ now = 0
    /\ invocations = 0
    /\ consec = 0
    /\ clean = TRUE
    /\ last_event = [kind |-> "none", prior |-> "CLOSED"]

\* _call_async raises CircuitBreakerError without calling func
CallRejected(c) ==
    /\ pc[c] = "idle"
    /\ call_rejected(cb, now, recovery_timeout)
    /\ last_event' = [kind |-> "reject", prior |-> cb.state]
    /\ UNCHANGED <<cb, expected_all, pc, entry, invocations, consec, clean,
                   now, wfvars, dcvars, idvars, sinkvars, retryvars, mcpvars,
                   gemvars, delayvars, eventvars, stampvars, avgvars>>

\* _call_async passes the gate and suspends in `await func(*args, **kwargs)`
CallAdmitted(c) ==
    /\ pc[c] = "idle"
    /\ invocations < MaxCalls
    /\ ~call_rejected(cb, now, recovery_timeout)
    /\ cb' = call_admitted(cb, now, recovery_timeout)
    /\ pc' = [pc EXCEPT ![c] = "awaiting"]
    /\ entry' = [entry EXCEPT ![c] = cb.state]
    /\ invocations' = invocations + 1
    /\ last_event' = [kind |-> "admit", prior |-> cb.state]
    /\ UNCHANGED <<expected_all, consec, clean, now, wfvars, dcvars, idvars,
                   sinkvars, retryvars, mcpvars, gemvars, delayvars,
                   eventvars, stampvars, avgvars>>

\* func returned: _on_success
CallReturns(c) ==
    /\ pc[c] = "awaiting"
    /\ cb' = on_success(cb)
    /\ pc' = [pc EXCEPT ![c] = "idle"]
    /\ consec' = 0
    /\ clean' = FALSE
    /\ last_event' = [kind |-> "success", prior |-> cb.state]
    /\ UNCHANGED <<expected_all, entry, invocations, now, wfvars, dcvars,
                   idvars, sinkvars, retryvars, mcpvars, gemvars, delayvars,
                   eventvars, stampvars, avgvars>>

\* func raised an exception matching expected_exception: _on_failure, re-raise
CallRaises(c) ==
    /\ pc[c] = "awaiting"
    /\ cb' = on_failure(cb, now, failure_threshold)
    /\ pc' = [pc EXCEPT ![c] = "idle"]
    /\ consec' = consec + 1
    /\ last_event' = [kind |-> "failure", prior |-> cb.state]
    /\ UNCHANGED <<expected_all, entry, invocations, clean, now, wfvars,
                   dcvars, idvars, sinkvars, retryvars, mcpvars, gemvars,
                   delayvars, eventvars, stampvars, avgvars>>

\* func raised an exception outside expected_exception: it propagates past
\* both _on_success and the except clause
CallRaisesOther(c) ==
    /\ pc[c] = "awaiting"
    /\ ~expected_all
    /\ pc' = [pc EXCEPT ![c] = "idle"]
    /\ clean' = FALSE
    /\ last_event' = [kind |-> "other", prior |-> cb.state]
    /\ UNCHANGED <<cb, expected_all, entry, invocations, consec, now, wfvars,
                   dcvars, idvars, sinkvars, retryvars, mcpvars, gemvars,
                   delayvars, eventvars, stampvars, avgvars>>

Tick ==
    /\ LoopIdle
    /\ now + TimeStep <= MaxTime
    /\ now' = now + TimeStep
    /\ UNCHANGED <<cbvars, wfvars, dcvars, idvars, sinkvars, retryvars,
                   mcpvars, gemvars, delayvars, eventvars, stampvars, avgvars>>

NextCB ==
    \/ \E c \in Callers : CallRejected(c)
    \/ \E c \in Callers : CallAdmitted(c)
    \/ \E c \in Callers : CallReturns(c)
    \/ \E c \in Callers : CallRaises(c)
    \/ \E c \in Callers : CallRaisesOther(c)
    \/ Tick

SpecCB == InitCB /\ [][NextCB]_vars

TypeOKCB ==
    /\ cb.state \in {"CLOSED", "OPEN", "HALF_OPEN"}
    /\ cb.failure_count \in 0..MaxCalls
    /\ pc \in [Callers -> {"idle", "awaiting"}]

\* an emit that leaves status at the default of the signature, line 115
workflow_update_default_status(status) ==
    IF socketio_client = "ok" THEN <<"processing">> ELSE <<>>

\* emit_workflow_update(ticket_id, ..., status): what the sink takes
workflow_update(status) == IF socketio_client = "ok" THEN <<status>> ELSE <<>>

\* the emit_workflow_update of update_workflow_status, lines 171-183: made for
\* an id in active_workflows only
status_update(t, status) ==
    IF registered[t] = "none" THEN <<>> ELSE workflow_update(status)

\* the events of a step, appended to those of the ticket
emits(t, events) == emitted' = [emitted EXCEPT ![t] = @ \o events]

\* ------------------------------------------------ TicketProcessor
\* TicketProcessor.update_workflow_status: the dict active_workflows holds for
\* the id gets the status; nothing happens when the id is not registered
update_workflow_status(h, t, status) ==
    IF registered[t] = "none" THEN h
    ELSE [h EXCEPT ![t][registered[t]].status = status]

\* what the workflow's own status updates leave alone
clockvars == <<returned, utcnow, last_cleanup, system_health>>

\* update_workflow_status, line 173: 'updated_at' = utcnow().isoformat() on the
\* dict active_workflows holds for the id; nothing for an id it does not hold
stamped(t) ==
    /\ updated_at' = IF registered[t] = "none" THEN updated_at
                     ELSE [updated_at EXCEPT ![t] = utcnow]
    /\ updated_at_iso' = IF registered[t] = "none" THEN updated_at_iso
                         ELSE [updated_at_iso EXCEPT ![t] = TRUE]
    /\ UNCHANGED clockvars

\* create_ticket, line 213: 'updated_at' of the new dict
created(t) ==
    /\ updated_at' = [updated_at EXCEPT ![t] = utcnow]
    /\ updated_at_iso' = [updated_at_iso EXCEPT ![t] = TRUE]
    /\ UNCHANGED clockvars

\* process_ticket_async, lines 293-297: the status update stamps the dict the
\* registry holds, then the registry entry becomes final_ticket, with the
\* 'updated_at' that dict carries
finalized(t) ==
    /\ updated_at' =
          [updated_at EXCEPT ![t] =
              IF holds[t] = "copy" /\ registered[t] # "copy" THEN copied_at[t]
              ELSE IF registered[t] = "none" THEN @
              ELSE utcnow]
    /\ updated_at_iso' =
          IF registered[t] = holds[t]
          THEN [updated_at_iso EXCEPT ![t] = TRUE] ELSE updated_at_iso
    /\ UNCHANGED clockvars

\* the dict the task works on is replaced by tk (in-place mutation of ticket_data)
SetHeld(h, t, tk) == [h EXCEPT ![t][holds[t]] = tk]

\* TicketProcessor.create_ticket: the ticket_data dict
create_ticket(subj, extra) ==
    [NoTicket EXCEPT !.subject = subj,
                     !.status = "received",
                     !.analysis_results = (extra = "phase_results"),
                     !.attempts_numeric = (extra \in {"none", "phase_results"}),
                     !.attempts_serialisable = (extra # "set_attempts")]

\* TicketProcessor.process_ticket: create_ticket, then
\* asyncio.create_task(self.process_ticket_async(ticket_data)); an exception
\* of create_ticket's emit_workflow_update (line 225) is re-raised (235-237,
\* 548-550) and no task is created
process_ticket(t, subj, extra) ==
    /\ LoopIdle
    /\ task[t] = "new"
    /\ \A u \in Tickets : u < t => task[u] # "new"
    /\ heap' = [heap EXCEPT ![t].orig = create_ticket(subj, extra)]
    /\ registered' = [registered EXCEPT ![t] = "orig"]
    /\ holds' = [holds EXCEPT ![t] = "orig"]
    /\ task' = [task EXCEPT ![t] = IF EmitRaised THEN "raised" ELSE "scheduled"]
    /\ sink_escaped' = (sink_escaped \/ EmitRaised)
    /\ emits(t, workflow_update("received"))
    /\ created(t)
    /\ UNCHANGED <<agent_circuit_breakers, workflow_metrics, master_agent,
                   phishguard_agent, result, excepted, phases_attempted,
                   model, gemini_classification, classified_via, now, cbvars,
                   idvars, socketio_client, retryvars, mcpvars, gemvars,
                   delayvars, stampvars, avgvars>>

\* process_ticket_async, lines 250-265: up to the status 'processing'
process_ticket_async_begin(t) ==
    /\ CanRun(t)
    /\ task[t] = "scheduled"
    /\ Held(t).attempts_numeric
    /\ heap' = update_workflow_status(
                  [heap EXCEPT ![t][holds[t]].processing_attempts = @ + 1],
                  t, "processing")
    /\ workflow_metrics' = [workflow_metrics EXCEPT !.total_processed = @ + 1]
    /\ task' = [task EXCEPT ![t] = "started"]
    /\ emits(t, status_update(t, "processing"))
    /\ stamped(t)
    /\ UNCHANGED <<registered, holds, agent_circuit_breakers, master_agent,
                   phishguard_agent, result, excepted, phases_attempted,
                   model, gemini_classification, classified_via, now, cbvars,
                   idvars, sinkvars, retryvars, mcpvars, gemvars, delayvars,
                   stampvars, avgvars>>

\* process_ticket_async, lines 317-331: the except clause's marks on the registry
mark_failed(h, t) ==
    LET h1 == update_workflow_status(h, t, "failed") IN
    IF registered[t] = "none" THEN h1
    ELSE [h1 EXCEPT ![t][registered[t]] =
             [@ EXCEPT !.status = "failed",
                       !.error = TRUE,
                       !.requires_manual_intervention = TRUE]]

\* process_ticket_async, lines 303-334: `ticket_data.get('processing_attempts', 0) + 1`
\* raises TypeError for a processing_attempts that is no number; the except
\* clause marks the ticket failed and returns the registry's dict
process_ticket_async_except(t) ==
    /\ CanRun(t)
    /\ task[t] = "scheduled"
    /\ ~Held(t).attempts_numeric
    /\ Held(t).attempts_serialisable
    /\ heap' = mark_failed(heap, t)
    /\ workflow_metrics' = [workflow_metrics EXCEPT !.failed_workflows = @ + 1]
    /\ result' = [result EXCEPT ![t] =
                     IF registered[t] = "none" THEN heap'[t][holds[t]]
                     ELSE heap'[t][registered[t]]]
    /\ task' = [task EXCEPT ![t] = "done"]
    /\ excepted' = [excepted EXCEPT ![t] = TRUE]
    /\ emits(t, status_update(t, "failed"))
    /\ stamped(t)
    /\ UNCHANGED <<registered, holds, agent_circuit_breakers, master_agent,
                   phishguard_agent, phases_attempted, model,
                   gemini_classification, classified_via, now, cbvars, idvars,
                   sinkvars, retryvars, mcpvars, gemvars, delayvars,
                   stampvars, avgvars>>

\* process_ticket_async, lines 303-314: the except clause puts processing_attempts
\* into error_context and calls handle_error, whose _log_error runs
\* json.dumps(context) (error_handling.py line 159); for a value json cannot
\* encode that raises TypeError inside the except clause, and the exception
\* leaves process_ticket_async before any mark is put on the ticket
process_ticket_async_escapes(t) ==
    /\ CanRun(t)
    /\ task[t] = "scheduled"
    /\ ~Held(t).attempts_numeric
    /\ ~Held(t).attempts_serialisable
    /\ task' = [task EXCEPT ![t] = "raised"]
    /\ excepted' = [excepted EXCEPT ![t] = TRUE]
    /\ UNCHANGED <<heap, registered, holds, agent_circuit_breakers,
                   workflow_metrics, master_agent, phishguard_agent, result,
                   phases_attempted, model, gemini_classification,
                   classified_via, now, cbvars, dcvars, idvars, sinkvars,
                   retryvars, mcpvars, gemvars, delayvars, eventvars,
                   stampvars, avgvars>>

\* ------------------------------------------------ MasterAgent
\* what the external classifier does in one call of generate_content: it answers
\* with a valid label, answers with some other text, raises with 'rate limit',
\* 'quota', 'network' or 'connection' in the message, or raises something else
ClassifierAnswers ==
    {"Phishing/Security", "General Inquiry", "other text", "network error", "raises"}

Labels == {"Phishing/Security", "General Inquiry"}

\* MasterAgent._fallback_classification
fallback_classification(subj) ==
    IF subj = "keyword" THEN "Phishing/Security" ELSE "General Inquiry"

\* a primary path that hands on whatever text the classifier answered
classify_with_gemini_unvalidated(answer) ==
    IF answer \in {"raises", "network error"}
    THEN [ok |-> FALSE, label |-> "none",
          error |-> IF answer = "network error" THEN "RetryableError" ELSE "APIError"]
    ELSE [ok |-> TRUE, label |-> answer, error |-> "none"]

\* MasterAgent._classify_with_gemini, lines 144-172: the wrapped function
classify_with_gemini(answer) ==
    IF answer \in Labels THEN [ok |-> TRUE, label |-> answer, error |-> "none"]
    ELSE [ok |-> FALSE, label |-> "none",
          error |-> IF answer = "network error" THEN "RetryableError" ELSE "APIError"]

\* MasterAgent.classify_ticket for a non-empty subject, with the breaker b that
\* decorates _classify_with_gemini: the label, the breaker afterwards and the
\* path taken
classify_ticket(subj, answer, b, t) ==
    IF ~model
    THEN [label |-> fallback_classification(subj), breaker |-> b, via |-> "no_model",
          calls |-> 0, error |-> "none"]
    ELSE IF call_rejected(b, t, gemini_recovery_timeout)
    THEN [label |-> fallback_classification(subj), breaker |-> b, via |-> "breaker_open",
          calls |-> 0, error |-> "CircuitBreakerError"]
    ELSE LET r == classify_with_gemini(answer)
             b1 == call_admitted(b, t, gemini_recovery_timeout) IN
         IF r.ok
         THEN [label |-> r.label, breaker |-> on_success(b1), via |-> "primary",
               calls |-> 1, error |-> "none"]
         ELSE [label |-> fallback_classification(subj),
               breaker |-> on_failure(b1, t, gemini_failure_threshold),
               via |-> "primary_failed", calls |-> 1, error |-> r.error]

\* MasterAgent.process_ticket, lines 270-289: classification and routing stamped
\* on ticket_data in place
stamp_classification(tk, label) ==
    [tk EXCEPT !.classification = label,
               !.status = "classified",
               !.assigned_agent =
                   IF label = "Phishing/Security" THEN "PhishGuard Agent"
                   ELSE "General Support Agent",
               !.priority = IF label = "Phishing/Security" THEN "high" ELSE "normal",
               !.escalation_level =
                   IF label = "Phishing/Security" THEN "security" ELSE "standard"]

\* _process_with_master_agent, lines 377-386: fallback_ticket = ticket_data.copy()
fallback_ticket(tk) ==
    [tk EXCEPT !.classification = "General Inquiry",
               !.assigned_agent = "General Support Agent",
               !.status = "classified",
               !.priority = "normal",
               !.processing_error = TRUE,
               !.fallback_used = TRUE]

\* a registry that makes a new breaker for every call
breaker_for_every_call(name) == NewBreaker

\* agent_circuit_breakers[name], created on first use
breaker_for(name) ==
    IF agent_circuit_breakers[name] = NoBreaker THEN NewBreaker
    ELSE agent_circuit_breakers[name]

\* TicketProcessor._process_with_master_agent: the whole call, there is no
\* suspension point in it (the classifier call is synchronous)
process_with_master_agent(t, answer) ==
    /\ CanRun(t)
    /\ task[t] = "started"
    /\ LET b == breaker_for("master_agent")
           c == classify_ticket(Held(t).subject, answer, gemini_classification, now)
           useFallback(b2, why) ==
               /\ heap' = [heap EXCEPT ![t].copy = fallback_ticket(Held(t))]
               /\ holds' = [holds EXCEPT ![t] = "copy"]
               /\ copied_at' = [copied_at EXCEPT ![t] = updated_at[t]]
               /\ agent_circuit_breakers' = b2
               /\ gemini_classification' = gemini_classification
               /\ classified_via' = [classified_via EXCEPT ![t] = why]
               /\ emits(t, (IF master_agent THEN workflow_update("processing")
                             ELSE <<>>) \o workflow_update("classified"))
               /\ UNCHANGED gemvars
       IN  IF ~master_agent
           THEN useFallback(agent_circuit_breakers, "no_master_agent")
           ELSE IF call_rejected(b, now, recovery_timeout)
           THEN useFallback([agent_circuit_breakers EXCEPT !["master_agent"] = b],
                            "agent_breaker_open")
           ELSE IF Held(t).subject = "empty"
           THEN useFallback([agent_circuit_breakers EXCEPT !["master_agent"] =
                               on_failure(call_admitted(b, now, recovery_timeout),
                                          now, failure_threshold)],
                            "empty_subject")
           ELSE /\ heap' = SetHeld(heap, t, stamp_classification(Held(t), c.label))
                /\ holds' = holds
                /\ copied_at' = copied_at
                /\ gemini_classification' = c.breaker
                /\ classified_via' = [classified_via EXCEPT ![t] = c.via]
                /\ generate_content_calls' =
                       [generate_content_calls EXCEPT ![t] = c.calls]
                /\ classify_error' = [classify_error EXCEPT ![t] = c.error]
                /\ emits(t, workflow_update("processing"))
                /\ agent_circuit_breakers' =
                       [agent_circuit_breakers EXCEPT !["master_agent"] =
                           on_success(call_admitted(b, now, recovery_timeout))]
    /\ task' = [task EXCEPT ![t] = "triaged"]
    /\ UNCHANGED <<registered, workflow_metrics, master_agent,
                   phishguard_agent, result, excepted, phases_attempted,
                   model, now, cbvars, dcvars, idvars, sinkvars, retryvars,
                   mcpvars, delayvars, avgvars>>

\* process_ticket_async, lines 272-280: update_workflow_status(ticket_id, 'classified')
process_ticket_async_classified(t) ==
    /\ CanRun(t)
    /\ task[t] = "triaged"
    /\ heap' = update_workflow_status(heap, t, "classified")
    /\ task' = [task EXCEPT ![t] = "classified"]
    /\ emits(t, workflow_update("classified") \o status_update(t, "classified"))
    /\ stamped(t)
    /\ UNCHANGED <<registered, holds, agent_circuit_breakers,
                   workflow_metrics, master_agent, phishguard_agent, result,
                   excepted, phases_attempted, model, gemini_classification,
                   classified_via, now, cbvars, idvars, sinkvars, retryvars,
                   mcpvars, gemvars, delayvars, stampvars, avgvars>>

\* _process_with_specialist_agent, lines 411-413
process_with_specialist_agent(t) ==
    /\ CanRun(t)
    /\ task[t] = "classified"
    /\ heap' = update_workflow_status(heap, t, "delegating")
    /\ task' = [task EXCEPT ![t] = "delegating"]
    /\ emits(t, status_update(t, "delegating"))
    /\ stamped(t)
    /\ UNCHANGED <<registered, holds, agent_circuit_breakers,
                   workflow_metrics, master_agent, phishguard_agent, result,
                   excepted, phases_attempted, model, gemini_classification,
                   classified_via, now, cbvars, idvars, sinkvars, retryvars,
                   mcpvars, gemvars, delayvars, stampvars, avgvars>>

\* _process_with_specialist_agent, lines 420-437: the except clause
escalate_specialist_failure(tk) ==
    [tk EXCEPT !.status = "escalated", !.requires_manual_intervention = TRUE]

\* _process_general_ticket, lines 471-481: up to `await asyncio.sleep(2.0)`; an
\* exception of its emit_workflow_update lands in the except clause of
\* _process_with_specialist_agent
process_general_ticket_sleep(t) ==
    /\ CanRun(t)
    /\ task[t] = "delegating"
    /\ Held(t).classification # "Phishing/Security"
    /\ heap' = IF EmitRaised
               THEN SetHeld(heap, t, escalate_specialist_failure(Held(t)))
               ELSE heap
    /\ task' = [task EXCEPT ![t] = IF EmitRaised THEN "specialist_done"
                                   ELSE "general_sleep"]
    /\ sink_escaped' = (sink_escaped \/ EmitRaised)
    /\ emits(t, workflow_update("working"))
    /\ UNCHANGED <<registered, holds, agent_circuit_breakers,
                   workflow_metrics, master_agent, phishguard_agent, result,
                   excepted, phases_attempted, model, gemini_classification,
                   classified_via, now, cbvars, dcvars, idvars,
                   socketio_client, retryvars, mcpvars, gemvars, delayvars,
                   stampvars, avgvars>>

\* _process_general_ticket, lines 483-491
process_general_ticket(t) ==
    /\ CanRun(t)
    /\ task[t] = "general_sleep"
    /\ heap' = SetHeld(heap, t, [Held(t) EXCEPT !.status = "resolved"])
    /\ task' = [task EXCEPT ![t] = "specialist_done"]
    /\ emits(t, workflow_update("resolved"))
    /\ UNCHANGED <<registered, holds, agent_circuit_breakers,
                   workflow_metrics, master_agent, phishguard_agent, result,
                   excepted, phases_attempted, model, gemini_classification,
                   classified_via, now, cbvars, dcvars, idvars, sinkvars,
                   retryvars, mcpvars, gemvars, delayvars, stampvars, avgvars>>

\* _process_security_ticket, lines 443-444: no PhishGuard Agent; the
\* WorkflowError lands in _process_with_specialist_agent's except clause
process_security_ticket_unconfigured(t) ==
    /\ CanRun(t)
    /\ task[t] = "delegating"
    /\ Held(t).classification = "Phishing/Security"
    /\ ~phishguard_agent
    /\ heap' = SetHeld(heap, t, escalate_specialist_failure(Held(t)))
    /\ task' = [task EXCEPT ![t] = "specialist_done"]
    /\ emits(t, workflow_update("escalated"))
    /\ UNCHANGED <<registered, holds, agent_circuit_breakers,
                   workflow_metrics, master_agent, phishguard_agent, result,
                   excepted, phases_attempted, model, gemini_classification,
                   classified_via, now, cbvars, dcvars, idvars, sinkvars,
                   retryvars, mcpvars, gemvars, delayvars, stampvars, avgvars>>

\* _process_security_ticket, lines 446-454: update_workflow_status(ticket_id, 'working')
process_security_ticket_working(t) ==
    /\ CanRun(t)
    /\ task[t] = "delegating"
    /\ Held(t).classification = "Phishing/Security"
    /\ phishguard_agent
    /\ heap' = update_workflow_status(heap, t, "working")
    /\ task' = [task EXCEPT ![t] = "working"]
    /\ emits(t, workflow_update("delegating") \o status_update(t, "working"))
    /\ stamped(t)
    /\ UNCHANGED <<registered, holds, agent_circuit_breakers,
                   workflow_metrics, master_agent, phishguard_agent, result,
                   excepted, phases_attempted, model, gemini_classification,
                   classified_via, now, cbvars, idvars, sinkvars, retryvars,
                   mcpvars, gemvars, delayvars, stampvars, avgvars>>

\* _process_security_ticket, lines 456-467: the phishguard_agent breaker's gate;
\* past it process_security_ticket starts and suspends in its first log_action
process_security_ticket_call(t) ==
    /\ CanRun(t)
    /\ task[t] = "working"
    /\ LET b == breaker_for("phishguard_agent") IN
       IF call_rejected(b, now, phishguard_recovery_timeout)
       THEN /\ heap' = SetHeld(heap, t, escalate_specialist_failure(Held(t)))
            /\ agent_circuit_breakers' =
                   [agent_circuit_breakers EXCEPT !["phishguard_agent"] = b]
            /\ task' = [task EXCEPT ![t] = "specialist_done"]
       ELSE /\ heap' = heap
            /\ agent_circuit_breakers' =
                   [agent_circuit_breakers EXCEPT !["phishguard_agent"] =
                       call_admitted(b, now, phishguard_recovery_timeout)]
            /\ task' = [task EXCEPT ![t] = "pg_activated"]
    /\ emits(t, IF call_rejected(breaker_for("phishguard_agent"), now,
                               phishguard_recovery_timeout)
                THEN workflow_update("escalated") ELSE <<>>)
    /\ UNCHANGED <<registered, holds, workflow_metrics, master_agent,
                   phishguard_agent, result, excepted, phases_attempted,
                   model, gemini_classification, classified_via, now, cbvars,
                   dcvars, idvars, sinkvars, retryvars, mcpvars, gemvars,
                   delayvars, stampvars, avgvars>>

\* ------------------------------------------------ PhishGuardAgent
\* process_security_ticket, lines 763-765, then analyze_threat up to its first
\* log_action
process_security_ticket_begin(t) ==
    /\ CanRun(t)
    /\ task[t] = "pg_activated"
    /\ heap' = SetHeld(heap, t, [Held(t) EXCEPT !.phases_set = TRUE,
                                               !.phases_completed = <<>>,
                                               !.phases_failed = <<>>])
    /\ task' = [task EXCEPT ![t] = "in_analyze"]
    /\ phases_attempted' = [phases_attempted EXCEPT ![t] = Append(@, "analyze")]
    /\ UNCHANGED <<registered, holds, agent_circuit_breakers,
                   workflow_metrics, master_agent, phishguard_agent, result,
                   excepted, model, gemini_classification, classified_via,
                   now, cbvars, dcvars, idvars, sinkvars, retryvars, mcpvars,
                   gemvars, delayvars, eventvars, stampvars, avgvars>>

\* a protocol that keeps no record of a phase that raised
record_phase_completed_only(tk, phase, ok) ==
    IF ok THEN [tk EXCEPT !.phases_completed = Append(@, phase)] ELSE tk

\* process_security_ticket, lines 769-803: one phase handler returned (ok) or
\* raised, recorded in phases_completed or phases_failed
record_phase(tk, phase, ok) ==
    IF ok THEN [tk EXCEPT !.phases_completed = Append(@, phase)]
    ELSE [tk EXCEPT !.phases_failed = Append(@, phase)]

\* analyze_threat returns or raises (analysis_results is set by the phase or,
\* when it raised, to the default by process_security_ticket); contain_threat
\* starts
analyze_threat(t, ok) ==
    /\ CanRun(t)
    /\ task[t] = "in_analyze"
    /\ heap' = SetHeld(heap, t,
                        [record_phase(Held(t), "analyze", ok /\ ~LogRaised)
                            EXCEPT !.analysis_results = TRUE])
    /\ task' = [task EXCEPT ![t] = "in_contain"]
    /\ phases_attempted' = [phases_attempted EXCEPT ![t] = Append(@, "contain")]
    /\ sink_escaped' = (sink_escaped \/ LogRaised)
    /\ UNCHANGED <<registered, holds, agent_circuit_breakers,
                   workflow_metrics, master_agent, phishguard_agent, result,
                   excepted, model, gemini_classification, classified_via,
                   now, cbvars, dcvars, idvars, socketio_client, retryvars,
                   mcpvars, gemvars, delayvars, eventvars, stampvars, avgvars>>

\* contain_threat returns or raises; eradicate_threat starts
contain_threat(t, ok) ==
    /\ CanRun(t)
    /\ task[t] = "in_contain"
    /\ heap' = SetHeld(heap, t,
                        [record_phase(Held(t), "contain", ok /\ ~LogRaised)
                            EXCEPT !.containment_results = (@ \/ ok)])
    /\ task' = [task EXCEPT ![t] = "in_eradicate"]
    /\ phases_attempted' = [phases_attempted EXCEPT ![t] = Append(@, "eradicate")]
    /\ sink_escaped' = (sink_escaped \/ LogRaised)
    /\ UNCHANGED <<registered, holds, agent_circuit_breakers,
                   workflow_metrics, master_agent, phishguard_agent, result,
                   excepted, model, gemini_classification, classified_via,
                   now, cbvars, dcvars, idvars, socketio_client, retryvars,
                   mcpvars, gemvars, delayvars, eventvars, stampvars, avgvars>>

\* eradicate_threat returns or raises; document_remediation starts and suspends
\* in its first log_action
eradicate_threat(t, ok) ==
    /\ CanRun(t)
    /\ task[t] = "in_eradicate"
    /\ heap' = SetHeld(heap, t,
                        [record_phase(Held(t), "eradicate", ok /\ ~LogRaised)
                            EXCEPT !.eradication_results = (@ \/ ok)])
    /\ task' = [task EXCEPT ![t] = "in_document"]
    /\ phases_attempted' = [phases_attempted EXCEPT ![t] = Append(@, "document")]
    /\ sink_escaped' = (sink_escaped \/ LogRaised)
    /\ UNCHANGED <<registered, holds, agent_circuit_breakers,
                   workflow_metrics, master_agent, phishguard_agent, result,
                   excepted, model, gemini_classification, classified_via,
                   now, cbvars, dcvars, idvars, socketio_client, retryvars,
                   mcpvars, gemvars, delayvars, eventvars, stampvars, avgvars>>

\* document_remediation, lines 705-727: remediation_summary, with its
\* 'phases_completed' entry (line 709), is stored on the ticket
remediation_summary(tk) ==
    [tk EXCEPT !.remediation_summary = TRUE,
               !.summary_phases_completed =
                   <<"analyze", "contain", "eradicate", "document">>]

\* document_remediation, lines 713-727: the summary is stored and
\* ticket_data['status'] = 'resolved', then it suspends in log_action
document_remediation(t) ==
    /\ CanRun(t)
    /\ task[t] = "in_document"
    /\ heap' = SetHeld(heap, t, [remediation_summary(Held(t)) EXCEPT
                                    !.status = "resolved"])
    /\ task' = [task EXCEPT ![t] = "documented"]
    /\ UNCHANGED <<registered, holds, agent_circuit_breakers,
                   workflow_metrics, master_agent, phishguard_agent, result,
                   excepted, phases_attempted, model, gemini_classification,
                   classified_via, now, cbvars, dcvars, idvars, sinkvars,
                   retryvars, mcpvars, gemvars, delayvars, eventvars,
                   stampvars, avgvars>>

\* document_remediation raises while building the summary, before it touches
\* the ticket; process_security_ticket records it and goes on to the final status
document_remediation_raises(t) ==
    /\ CanRun(t)
    /\ task[t] = "in_document"
    /\ heap' = SetHeld(heap, t, record_phase(Held(t), "document", FALSE))
    /\ task' = [task EXCEPT ![t] = "pg_final"]
    /\ UNCHANGED <<registered, holds, agent_circuit_breakers,
                   workflow_metrics, master_agent, phishguard_agent, result,
                   excepted, phases_attempted, model, gemini_classification,
                   classified_via, now, cbvars, dcvars, idvars, sinkvars,
                   retryvars, mcpvars, gemvars, delayvars, eventvars,
                   stampvars, avgvars>>

\* document_remediation returns: process_security_ticket, line 808
document_remediation_returns(t) ==
    /\ CanRun(t)
    /\ task[t] = "documented"
    /\ heap' = SetHeld(heap, t, record_phase(Held(t), "document", TRUE))
    /\ task' = [task EXCEPT ![t] = "pg_final"]
    /\ UNCHANGED <<registered, holds, agent_circuit_breakers,
                   workflow_metrics, master_agent, phishguard_agent, result,
                   excepted, phases_attempted, model, gemini_classification,
                   classified_via, now, cbvars, dcvars, idvars, sinkvars,
                   retryvars, mcpvars, gemvars, delayvars, eventvars,
                   stampvars, avgvars>>

\* a protocol that asks for three completed phases
final_status_three(tk) ==
    IF Len(tk.phases_completed) >= 3 THEN "resolved" ELSE "escalated"

\* process_security_ticket, lines 815-827
final_status(tk) ==
    IF Len(tk.phases_completed) = total_phases THEN "resolved"
    ELSE IF Len(tk.phases_completed) >= 2 THEN "resolved"
    ELSE "escalated"

\* process_security_ticket, lines 829-837: ticket_data['status'] = final_status
\* and return, through the breaker's _on_success
process_security_ticket(t) ==
    /\ CanRun(t)
    /\ task[t] = "pg_final"
    /\ heap' = SetHeld(heap, t, [Held(t) EXCEPT !.status = final_status(Held(t))])
    /\ agent_circuit_breakers' =
           [agent_circuit_breakers EXCEPT !["phishguard_agent"] = on_success(@)]
    /\ task' = [task EXCEPT ![t] = "specialist_done"]
    /\ UNCHANGED <<registered, holds, workflow_metrics, master_agent,
                   phishguard_agent, result, excepted, phases_attempted,
                   model, gemini_classification, classified_via, now, cbvars,
                   dcvars, idvars, sinkvars, retryvars, mcpvars, gemvars,
                   delayvars, eventvars, stampvars, avgvars>>

\* ------------------------------------------------ TicketProcessor, the end
RECURSIVE GCD(_, _)
GCD(a, b) == IF b = 0 THEN a ELSE GCD(b, a % b)

\* the fraction num/den in lowest terms
Fraction(num, den) ==
    LET g == GCD(num, den) IN [num |-> num \div g, den |-> den \div g]

\* _update_workflow_metrics, lines 504-510: the running average, recomputed
\* when successful_workflows is positive
update_average(avg, total_successful, processing_time) ==
    IF avg = NotTracked THEN avg
    ELSE IF total_successful > 0
    THEN Fraction(avg.num * (total_successful - 1) + processing_time * avg.den,
                  avg.den * total_successful)
    ELSE avg

\* the durations a run can have, in seconds
ProcessingTimes == 0..MaxProcessingTime

\* _update_workflow_metrics(ticket_data, processing_time), the part after the
\* counters: m1 is workflow_metrics with the counters updated
measured(status, m1, processing_time) ==
    /\ average_processing_time' =
          update_average(average_processing_time, m1.successful_workflows,
                         processing_time)
    /\ resolved_time' =
          IF average_processing_time # NotTracked /\ status = "resolved"
          THEN resolved_time + processing_time ELSE resolved_time

\* TicketProcessor._update_workflow_metrics
update_workflow_metrics(m, status) ==
    IF status = "resolved" THEN [m EXCEPT !.successful_workflows = @ + 1]
    ELSE IF status = "escalated" THEN [m EXCEPT !.escalated_workflows = @ + 1]
    ELSE IF status = "failed" THEN [m EXCEPT !.failed_workflows = @ + 1]
    ELSE m

\* process_ticket_async, lines 285-301: metrics, _finalize_workflow_status,
\* active_workflows[ticket_id] = final_ticket, return final_ticket
process_ticket_async(t) ==
    /\ CanRun(t)
    /\ task[t] = "specialist_done"
    /\ workflow_metrics' = update_workflow_metrics(workflow_metrics, Held(t).status)
    /\ heap' = update_workflow_status(heap, t, Held(t).status)
    /\ registered' = [registered EXCEPT ![t] = holds[t]]
    /\ result' = [result EXCEPT ![t] = heap'[t][holds[t]]]
    /\ task' = [task EXCEPT ![t] = "done"]
    /\ emits(t, status_update(t, Held(t).status))
    /\ finalized(t)
    /\ \E processing_time \in ProcessingTimes :
          measured(Held(t).status, workflow_metrics', processing_time)
    /\ UNCHANGED <<holds, agent_circuit_breakers, master_agent,
                   phishguard_agent, excepted, phases_attempted, model,
                   gemini_classification, classified_via, now, cbvars, idvars,
                   sinkvars, retryvars, mcpvars, gemvars, delayvars,
                   stampvars>>

\* one step of the task of ticket t
TaskStep(t) ==
    \/ process_ticket_async_begin(t)
    \/ process_ticket_async_except(t)
    \/ process_ticket_async_escapes(t)
    \/ \E answer \in ClassifierAnswers : process_with_master_agent(t, answer)
    \/ process_ticket_async_classified(t)
    \/ process_with_specialist_agent(t)
    \/ process_general_ticket_sleep(t)
    \/ process_general_ticket(t)
    \/ process_security_ticket_unconfigured(t)
    \/ process_security_ticket_working(t)
    \/ process_security_ticket_call(t)
    \/ process_security_ticket_begin(t)
    \/ \E ok \in BOOLEAN : analyze_threat(t, ok)
    \/ \E ok \in BOOLEAN : contain_threat(t, ok)
    \/ \E ok \in BOOLEAN : eradicate_threat(t, ok)
    \/ document_remediation(t)
    \/ document_remediation_raises(t)
    \/ document_remediation_returns(t)
    \/ process_security_ticket(t)
    \/ process_ticket_async(t)

\* no caller uses the stand-alone breaker of SpecCB
InitNoCallers ==
    /\ cb = NewBreaker
    /\ expected_all = TRUE
    /\ pc = [c \in Callers |-> "idle"]
    /\ entry = [c \in Callers |-> "CLOSED"]
    /\ now = 0
    /\ invocations = 0
    /\ consec = 0
    /\ clean = TRUE
    /\ last_event = [kind |-> "none", prior |-> "CLOSED"]

Init ==
    /\ InitProcessor
    /\ master_agent \in BOOLEAN
    /\ phishguard_agent \in BOOLEAN
    /\ model \in BOOLEAN
    /\ model => master_agent
    /\ InitNoCallers

Next ==
    \/ \E t \in Tickets, subj \in Subjects, extra \in AdditionalData :
          process_ticket(t, subj, extra)
    \/ \E t \in Tickets : TaskStep(t)
    \/ Tick

Spec == Init /\ [][Next]_vars

\* the breaker b after k calls through it have failed at time 0
RECURSIVE failed_calls(_, _, _)
failed_calls(b, k, threshold) ==
    IF k = 0 THEN b ELSE on_failure(failed_calls(b, k - 1, threshold), 0, threshold)

\* a processor with a Master Agent, with or without a PhishGuard Agent, that
\* has been in use: `empties` tickets with an empty subject went through it
\* (each one a failure of the master_agent breaker and a resolved general
\* ticket) and were cleaned from the registry, and `failures` direct calls of
\* MasterAgent.classify_ticket ended in a failure of the classifier, all at
\* time 0 (one kind of earlier use at a time)
InitWarm ==
    /\ InitTickets
    /\ mcp_client = FALSE
    /\ mcp_circuit_breaker = NewBreaker
    /\ max_retries = 0
    /\ base_delay = default_base_delay
    /\ max_delay = default_max_delay
    /\ backoff_factor = default_backoff_factor
    /\ socketio_client = "none"
    /\ master_agent = TRUE
    /\ phishguard_agent \in BOOLEAN
    /\ model \in BOOLEAN
    /\ \E empties \in 0..MaxEarlier, failures \in 0..MaxEarlier :
          /\ failures > 0 => (model /\ empties = 0)
          /\ agent_circuit_breakers =
                 [a \in {"master_agent", "phishguard_agent"} |->
                     IF a = "master_agent" /\ empties > 0
                     THEN failed_calls(NewBreaker, empties, failure_threshold)
                     ELSE NoBreaker]
          /\ workflow_metrics = [total_processed |-> empties,
                                 successful_workflows |-> empties,
                                 failed_workflows |-> 0, escalated_workflows |-> 0]
          /\ gemini_classification =
                 failed_calls(NewBreaker, failures, gemini_failure_threshold)
    /\ InitNoCallers

\* a client that submits the next ticket when the previous one is finished
process_ticket_in_turn(t, subj, extra) ==
    /\ \A u \in Tickets : task[u] \in {"new", "done", "raised"}
    /\ process_ticket(t, subj, extra)

NextWarm ==
    \/ \E t \in Tickets, subj \in Subjects, extra \in AdditionalData :
          process_ticket_in_turn(t, subj, extra)
    \/ \E t \in Tickets : TaskStep(t)
    \/ Tick

SpecWarm == InitWarm /\ [][NextWarm]_vars

\* ------------------------------------------- agent methods called on their own
\* the ticket dict a caller hands to PhishGuardAgent.analyze_threat
direct_ticket(subj) == [NoTicket EXCEPT !.subject = subj, !.status = "working"]

\* PhishGuardAgent.analyze_threat(ticket_data): raises AgentError INVALID_INPUT
\* for an empty subject before it touches the dict, AgentError ANALYSIS_FAILED
\* when the analysis raises, else stores analysis_results and returns the dict
analyze_threat_direct(tk, ok) ==
    IF tk.subject = "empty" \/ ~ok
    THEN [raised |-> TRUE, value |-> "none", ticket |-> tk]
    ELSE [raised |-> FALSE, value |-> "analysis_results",
          ticket |-> [tk EXCEPT !.analysis_results = TRUE]]

\* one slot per call; the slots are used in order
NextCall(t) ==
    /\ returned[t].op = "none"
    /\ \A u \in Tickets : u < t => returned[u].op # "none"

\* `await master.classify_ticket(subject)`: no await suspends inside, the call
\* is one step of the event loop
classify_ticket_call(t, subj, answer) ==
    LET c == classify_ticket(subj, answer, gemini_classification, now) IN
    /\ NextCall(t)
    /\ returned' = [returned EXCEPT ![t] =
                       [op |-> "classify_ticket", subject |-> subj,
                        raised |-> FALSE, value |-> c.label]]
    /\ gemini_classification' = c.breaker
    /\ classified_via' = [classified_via EXCEPT ![t] = c.via]
    /\ generate_content_calls' = [generate_content_calls EXCEPT ![t] = c.calls]
    /\ classify_error' = [classify_error EXCEPT ![t] = c.error]
    /\ UNCHANGED <<heap, registered, holds, task, agent_circuit_breakers,
                   workflow_metrics, master_agent, phishguard_agent, result,
                   excepted, phases_attempted, model, now, cbvars, utcnow,
                   updated_at, updated_at_iso, last_cleanup, system_health,
                   idvars, sinkvars, retryvars, mcpvars, delayvars, eventvars,
                   stampvars, avgvars>>

\* `await phishguard.analyze_threat(ticket_data)` on a dict of the caller
analyze_threat_call(t, subj, ok) ==
    LET r == analyze_threat_direct(direct_ticket(subj), ok) IN
    /\ NextCall(t)
    /\ returned' = [returned EXCEPT ![t] =
                       [op |-> "analyze_threat", subject |-> subj,
                        raised |-> r.raised, value |-> r.value]]
    /\ heap' = [heap EXCEPT ![t].orig = r.ticket]
    /\ UNCHANGED <<registered, holds, task, agent_circuit_breakers,
                   workflow_metrics, master_agent, phishguard_agent, result,
                   excepted, phases_attempted, model, gemini_classification,
                   classified_via, now, cbvars, utcnow, updated_at,
                   updated_at_iso, last_cleanup, system_health, idvars,
                   sinkvars, retryvars, mcpvars, gemvars, delayvars,
                   eventvars, stampvars, avgvars>>

\* both agents constructed, the classifier's breaker with `failures` earlier
\* failed calls behind it
InitAgents ==
    /\ InitTickets
    /\ mcp_client = FALSE
    /\ mcp_circuit_breaker = NewBreaker
    /\ max_retries = 0
    /\ base_delay = default_base_delay
    /\ max_delay = default_max_delay
    /\ backoff_factor = default_backoff_factor
    /\ socketio_client = "none"
    /\ master_agent = TRUE
    /\ phishguard_agent = TRUE
    /\ model \in BOOLEAN
    /\ agent_circuit_breakers =
          [a \in {"master_agent", "phishguard_agent"} |-> NoBreaker]
    /\ workflow_metrics = [total_processed |-> 0, successful_workflows |-> 0,
                           failed_workflows |-> 0, escalated_workflows |-> 0]
    /\ \E failures \in 0..MaxEarlier :
          /\ failures > 0 => model
          /\ gemini_classification =
                failed_calls(NewBreaker, failures, gemini_failure_threshold)
    /\ InitNoCallers

NextAgents ==
    \/ \E t \in Tickets, subj \in Subjects, answer \in ClassifierAnswers :
          classify_ticket_call(t, subj, answer)
    \/ \E t \in Tickets, subj \in Subjects, ok \in BOOLEAN :
          analyze_threat_call(t, subj, ok)
    \/ Tick

SpecAgents == InitAgents /\ [][NextAgents]_vars

\* ------------------------------------------- the registry and its cleanup
\* additional_data of create_ticket: nothing, or a ticket taken over from
\* elsewhere, {'status': 'resolved', 'updated_at': <a date that is no ISO string>}
CleanupData == {"none", "imported"}

\* `await create_ticket(subject, additional_data)`: 'updated_at' is
\* utcnow().isoformat() unless additional_data overrides it (lines 218-219)
create_ticket_call(t, data) ==
    /\ registered[t] = "none"
    /\ heap' = [heap EXCEPT ![t].orig =
                   [create_ticket("plain", "none") EXCEPT
                       !.status = IF data = "imported" THEN "resolved" ELSE @]]
    /\ registered' = [registered EXCEPT ![t] = "orig"]
    /\ updated_at' = [updated_at EXCEPT ![t] = utcnow]
    /\ updated_at_iso' = [updated_at_iso EXCEPT ![t] = (data = "none")]
    /\ UNCHANGED <<holds, task, agent_circuit_breakers, workflow_metrics,
                   master_agent, phishguard_agent, result, excepted,
                   phases_attempted, model, gemini_classification,
                   classified_via, now, cbvars, returned, utcnow,
                   last_cleanup, system_health, idvars, sinkvars, retryvars,
                   mcpvars, gemvars, delayvars, eventvars, stampvars, avgvars>>

\* `await update_workflow_status(ticket_id, status)`, lines 171-173: the status
\* and 'updated_at' = utcnow().isoformat()
update_workflow_status_call(t, status) ==
    /\ registered[t] # "none"
    /\ heap' = update_workflow_status(heap, t, status)
    /\ updated_at' = [updated_at EXCEPT ![t] = utcnow]
    /\ updated_at_iso' = [updated_at_iso EXCEPT ![t] = TRUE]
    /\ UNCHANGED <<registered, holds, task, agent_circuit_breakers,
                   workflow_metrics, master_agent, phishguard_agent, result,
                   excepted, phases_attempted, model, gemini_classification,
                   classified_via, now, cbvars, returned, utcnow,
                   last_cleanup, system_health, idvars, sinkvars, retryvars,
                   mcpvars, gemvars, delayvars, eventvars, stampvars, avgvars>>

\* an hour passes
HourPasses ==
    /\ utcnow < MaxHours
    /\ utcnow' = utcnow + 1
    /\ UNCHANGED <<now, cbvars, wfvars, returned, updated_at, updated_at_iso,
                   last_cleanup, system_health, idvars, sinkvars, retryvars,
                   mcpvars, gemvars, delayvars, eventvars, stampvars, avgvars>>

\* the registry entries cleanup_completed_workflows looks at, line 590
completed_workflows ==
    {t \in Tickets : registered[t] # "none" /\ Registry(t).status \in Terminal}

\* age_hours of line 592
age_hours(t) == utcnow - updated_at[t]

\* workflows_to_remove, lines 588-595; datetime.fromisoformat (line 591) raises
\* on the first entry it cannot parse, before anything is removed, and the
\* except clause (607-609) returns 0
workflows_to_remove(max_age_hours) ==
    IF \E t \in completed_workflows : ~updated_at_iso[t] THEN {}
    ELSE {t \in completed_workflows : age_hours(t) > max_age_hours}

\* cleanup_completed_workflows(max_age_hours)
cleanup_completed_workflows(max_age_hours) ==
    LET gone == workflows_to_remove(max_age_hours) IN
    /\ registered' = [t \in Tickets |-> IF t \in gone THEN "none" ELSE registered[t]]
    /\ last_cleanup' = [max_age_hours |-> max_age_hours,
                        cleaned_count |-> Cardinality(gone),
                        even |-> ~last_cleanup.even]
    /\ UNCHANGED <<heap, holds, task, agent_circuit_breakers,
                   workflow_metrics, master_agent, phishguard_agent, result,
                   excepted, phases_attempted, model, gemini_classification,
                   classified_via, now, cbvars, returned, utcnow, updated_at,
                   updated_at_iso, system_health, idvars, sinkvars, retryvars,
                   mcpvars, gemvars, delayvars, eventvars, stampvars, avgvars>>

\* the statuses a client of update_workflow_status hands in
CleanupStatuses == {"working", "resolved", "escalated", "failed"}

\* a processor with both agents and an empty registry
InitCleanup ==
    /\ InitProcessor
    /\ master_agent = TRUE
    /\ phishguard_agent = TRUE
    /\ model = TRUE
    /\ InitNoCallers

NextCleanup ==
    \/ \E t \in Tickets, data \in CleanupData : create_ticket_call(t, data)
    \/ \E t \in Tickets, status \in CleanupStatuses :
          update_workflow_status_call(t, status)
    \/ HourPasses
    \/ \E max_age_hours \in 0..MaxAge : cleanup_completed_workflows(max_age_hours)

SpecCleanup == InitCleanup /\ [][NextCleanup]_vars

\* ------------------------------- cleanup while tickets are being processed
\* cleanup_completed_workflows is synchronous: it runs as a whole while every
\* task is suspended in an await (or between tasks)
cleanup_in_flight(max_age_hours) ==
    /\ LoopIdle
    /\ cleanup_completed_workflows(max_age_hours)

\* an hour passes while tickets are worked on
HourPassesInFlight ==
    /\ utcnow < MaxInFlightHours
    /\ HourPasses

\* a processor with a Master Agent without classifier, with or without a
\* PhishGuard Agent, and with a tool channel: log_action awaits its tool call
\* (phishguard_agent.py 111-117), which is where a security ticket's task is
\* suspended
InitInFlight ==
    /\ InitTickets
    /\ mcp_client = TRUE
    /\ mcp_circuit_breaker = NewBreaker
    /\ max_retries = 0
    /\ base_delay = default_base_delay
    /\ max_delay = default_max_delay
    /\ backoff_factor = default_backoff_factor
    /\ socketio_client = "none"
    /\ agent_circuit_breakers = [a \in {"master_agent", "phishguard_agent"} |-> NoBreaker]
    /\ workflow_metrics = [total_processed |-> 0, successful_workflows |-> 0,
                           failed_workflows |-> 0, escalated_workflows |-> 0]
    /\ gemini_classification = NewBreaker
    /\ master_agent = TRUE
    /\ phishguard_agent \in BOOLEAN
    /\ model = FALSE
    /\ InitNoCallers

NextInFlight ==
    \/ \E t \in Tickets, subj \in Subjects, extra \in AdditionalData :
          process_ticket(t, subj, extra)
    \/ \E t \in Tickets : TaskStep(t)
    \/ HourPassesInFlight
    \/ \E max_age_hours \in 0..MaxInFlightAge : cleanup_in_flight(max_age_hours)

SpecInFlight == InitInFlight /\ [][NextInFlight]_vars

\* ------------------------------------------- the metrics of finished runs
\* runs whose metrics have been counted
finished(m) == m.successful_workflows + m.escalated_workflows + m.failed_workflows

\* `self._update_workflow_metrics(final_ticket, processing_time)`, line 290,
\* for a run that ended with `status` after processing_time seconds
update_workflow_metrics_call(status, processing_time) ==
    /\ finished(workflow_metrics) < MaxFinished
    /\ workflow_metrics' = update_workflow_metrics(workflow_metrics, status)
    /\ measured(status, workflow_metrics', processing_time)
    /\ UNCHANGED <<heap, registered, holds, task, agent_circuit_breakers,
                   master_agent, phishguard_agent, result, excepted,
                   phases_attempted, model, gemini_classification,
                   classified_via, now, cbvars, dcvars, idvars, sinkvars,
                   retryvars, mcpvars, gemvars, delayvars, eventvars,
                   stampvars>>

\* a new processor whose runs are followed by status and duration only
InitMetrics ==
    /\ InitRegistry
    /\ average_processing_time = NoAverage
    /\ resolved_time = 0
    /\ mcp_client = FALSE
    /\ mcp_circuit_breaker = NewBreaker
    /\ max_retries = 0
    /\ base_delay = default_base_delay
    /\ max_delay = default_max_delay
    /\ backoff_factor = default_backoff_factor
    /\ socketio_client = "none"
    /\ agent_circuit_breakers = [a \in {"master_agent", "phishguard_agent"} |-> NoBreaker]
    /\ workflow_metrics = [total_processed |-> 0, successful_workflows |-> 0,
                           failed_workflows |-> 0, escalated_workflows |-> 0]
    /\ gemini_classification = NewBreaker
    /\ master_agent = TRUE
    /\ phishguard_agent = TRUE
    /\ model = FALSE
    /\ InitNoCallers

NextMetrics ==
    \E status \in Terminal, processing_time \in ProcessingTimes :
        update_workflow_metrics_call(status, processing_time)

SpecMetrics == InitMetrics /\ [][NextMetrics]_vars

\* ------------------------------------------- the health of the processor
\* the breaker thresholds the processor gives its agents (lines 363-364, 456-457)
agent_failure_threshold(a) ==
    IF a = "master_agent" THEN failure_threshold ELSE phishguard_failure_threshold

agent_recovery_timeout(a) ==
    IF a = "master_agent" THEN recovery_timeout ELSE phishguard_recovery_timeout

\* a health check that calls a processor degraded from 10% on
assess_system_health_from_ten(breakers, m) ==
    IF \E a \in DOMAIN breakers : breakers[a].state = "OPEN" THEN "unhealthy"
    ELSE IF m.total_processed > 0 /\ m.failed_workflows * 100 >= 10 * m.total_processed
         THEN "degraded"
    ELSE "healthy"

\* TicketProcessor._assess_system_health; failure_rate is
\* failed_workflows / total_processed * 100, compared here without the division
assess_system_health(breakers, m) ==
    LET open_breakers == Cardinality({a \in DOMAIN breakers : breakers[a].state = "OPEN"})
        above(percent) ==
            m.total_processed > 0 /\ m.failed_workflows * 100 > percent * m.total_processed
    IN  IF open_breakers > 0 THEN "unhealthy"
        ELSE IF above(20) THEN "degraded"
        ELSE IF above(10) THEN "degraded"
        ELSE "healthy"

\* workflows started and not yet counted as resolved, escalated or failed
in_flight ==
    workflow_metrics.total_processed
        - (workflow_metrics.successful_workflows + workflow_metrics.failed_workflows
            + workflow_metrics.escalated_workflows)

\* process_ticket_async, line 261: a workflow starts (one at a time here)
workflow_begins ==
    /\ in_flight = 0
    /\ workflow_metrics.total_processed < MaxProcessed
    /\ workflow_metrics' = [workflow_metrics EXCEPT !.total_processed = @ + 1]
    /\ system_health' = "none"
    /\ UNCHANGED <<heap, registered, holds, task, agent_circuit_breakers,
                   master_agent, phishguard_agent, result, excepted,
                   phases_attempted, model, gemini_classification,
                   classified_via, now, cbvars, returned, utcnow, updated_at,
                   updated_at_iso, last_cleanup, idvars, sinkvars, retryvars,
                   mcpvars, gemvars, delayvars, eventvars, stampvars, avgvars>>

\* process_ticket_async, line 286 or 311: the workflow is counted by its outcome
workflow_ends(status) ==
    /\ in_flight > 0
    /\ workflow_metrics' = update_workflow_metrics(workflow_metrics, status)
    /\ system_health' = "none"
    /\ UNCHANGED <<heap, registered, holds, task, agent_circuit_breakers,
                   master_agent, phishguard_agent, result, excepted,
                   phases_attempted, model, gemini_classification,
                   classified_via, now, cbvars, returned, utcnow, updated_at,
                   updated_at_iso, last_cleanup, idvars, sinkvars, retryvars,
                   mcpvars, gemvars, delayvars, eventvars, stampvars, avgvars>>

\* a call of agent a through its breaker (lines 366-372, 459-465): rejected,
\* or admitted and then returning (ok) or raising
agent_call(a, ok) ==
    LET b == breaker_for(a)
        timeout == agent_recovery_timeout(a)
        b1 == call_admitted(b, now, timeout)
    IN  /\ in_flight > 0
        /\ agent_circuit_breakers' =
              [agent_circuit_breakers EXCEPT ![a] =
                  IF call_rejected(b, now, timeout) THEN b
                  ELSE IF ok THEN on_success(b1)
                  ELSE on_failure(b1, now, agent_failure_threshold(a))]
        /\ system_health' = "none"
        /\ UNCHANGED <<heap, registered, holds, task, workflow_metrics,
                       master_agent, phishguard_agent, result, excepted,
                       phases_attempted, model, gemini_classification,
                       classified_via, now, cbvars, returned, utcnow,
                       updated_at, updated_at_iso, last_cleanup, idvars,
                       sinkvars, retryvars, mcpvars, gemvars, delayvars,
                       eventvars, stampvars, avgvars>>

\* get_workflow_metrics()['system_health']
get_workflow_metrics ==
    /\ system_health' = assess_system_health(agent_circuit_breakers, workflow_metrics)
    /\ UNCHANGED <<now, cbvars, wfvars, returned, utcnow, updated_at,
                   updated_at_iso, last_cleanup, idvars, sinkvars, retryvars,
                   mcpvars, gemvars, delayvars, eventvars, stampvars, avgvars>>

NextHealth ==
    \/ workflow_begins
    \/ \E status \in {"resolved", "failed"} : workflow_ends(status)
    \/ \E a \in {"master_agent", "phishguard_agent"}, ok \in BOOLEAN : agent_call(a, ok)
    \/ Tick
    \/ get_workflow_metrics

SpecHealth == InitCleanup /\ [][NextHealth]_vars

\* ------------------------------------------- ticket ids
\* create_ticket, lines 205 and 222: generate_ticket_id draws an id (uuid4, no
\* look at the registry) and active_workflows[ticket_id] = ticket_data
create_ticket_id(id) ==
    /\ Len(ids_assigned) < MaxCreated
    /\ ids_assigned' = Append(ids_assigned, id)
    /\ active_ids' = [active_ids EXCEPT ![id] = Len(ids_assigned) + 1]
    /\ UNCHANGED <<now, cbvars, wfvars, dcvars, sinkvars, retryvars, mcpvars,
                   gemvars, delayvars, eventvars, stampvars, avgvars>>

NextIds == \E id \in TicketIds : create_ticket_id(id)

SpecIds == InitCleanup /\ [][NextIds]_vars

\* ------------------------------------------- a processor with an event sink
\* a Master Agent without remote classifier, with or without a PhishGuard
\* Agent, and a sink that works or raises
InitSink ==
    /\ InitTickets
    /\ mcp_client = FALSE
    /\ mcp_circuit_breaker = NewBreaker
    /\ max_retries = 0
    /\ base_delay = default_base_delay
    /\ max_delay = default_max_delay
    /\ backoff_factor = default_backoff_factor
    /\ socketio_client \in {"ok", "raises"}
    /\ agent_circuit_breakers =
          [a \in {"master_agent", "phishguard_agent"} |-> NoBreaker]
    /\ workflow_metrics = [total_processed |-> 0, successful_workflows |-> 0,
                           failed_workflows |-> 0, escalated_workflows |-> 0]
    /\ gemini_classification = NewBreaker
    /\ master_agent = TRUE
    /\ phishguard_agent \in BOOLEAN
    /\ model = FALSE
    /\ InitNoCallers

SpecSink == InitSink /\ [][Next]_vars

\* ------------------------------------------- tickets created with findings
\* a processor with a Master Agent without classifier model, with or without
\* a PhishGuard Agent
InitResults ==
    /\ InitProcessor
    /\ master_agent = TRUE
    /\ phishguard_agent \in BOOLEAN
    /\ model = FALSE
    /\ InitNoCallers

NextResults ==
    \/ \E t \in Tickets, subj \in Subjects, extra \in AdditionalData \cup ResultData :
          process_ticket(t, subj, extra)
    \/ \E t \in Tickets : TaskStep(t)
    \/ Tick

SpecResults == InitResults /\ [][NextResults]_vars

\* ------------------------------------------- retry_with_backoff
\* what an attempt can end in: the result, or an exception of one of these kinds
ExceptionKinds == {"RetryableError", "ConnectionError", "TimeoutError", "ValueError"}

\* the default of retryable_exceptions
retryable_exceptions == {"RetryableError", "ConnectionError", "TimeoutError"}

\* a wrapper that retries after every exception
is_retryable_any(kind) == kind \in ExceptionKinds

\* `except retryable_exceptions as e`
is_retryable(kind) == kind \in retryable_exceptions

\* a wrapper that sleeps the uncapped delay
actual_delay_uncapped(delay, cap) == delay

\* actual_delay = min(delay, max_delay)
actual_delay(delay, cap) == IF delay < cap THEN delay ELSE cap

\* async_wrapper is called: attempt 0 of `for attempt in range(max_retries + 1)`
\* awaits func
wrapper_call(c) ==
    /\ wrapper[c].pc = "idle"
    /\ wrapper' = [wrapper EXCEPT ![c] =
                      [@ EXCEPT !.pc = "attempting", !.invoked = @ + 1,
                                !.delay = base_delay]]
    /\ UNCHANGED <<now, cbvars, wfvars, dcvars, idvars, sinkvars, max_retries,
                   mcpvars, gemvars, delayvars, eventvars, stampvars, avgvars>>

\* func returned: `return await func(*args, **kwargs)`
func_returns(c) ==
    /\ wrapper[c].pc = "attempting"
    /\ wrapper' = [wrapper EXCEPT ![c].pc = "returned"]
    /\ UNCHANGED <<now, cbvars, wfvars, dcvars, idvars, sinkvars, max_retries,
                   mcpvars, gemvars, delayvars, eventvars, stampvars, avgvars>>

\* func raised: a retryable kind is re-raised on the final attempt and slept
\* on before that; any other kind is re-raised at once
func_raises(c, kind) ==
    /\ wrapper[c].pc = "attempting"
    /\ wrapper' = [wrapper EXCEPT ![c] =
          [@ EXCEPT !.failures = @ + 1,
                    !.other = (@ \/ kind \notin retryable_exceptions),
                    !.slept = IF is_retryable(kind) /\ wrapper[c].attempt # max_retries
                              THEN Append(@, actual_delay(wrapper[c].delay, max_delay))
                              ELSE @,
                    !.pc = IF is_retryable(kind) /\ wrapper[c].attempt # max_retries
                           THEN "sleeping" ELSE "raised"]]
    /\ UNCHANGED <<now, cbvars, wfvars, dcvars, idvars, sinkvars, max_retries,
                   mcpvars, gemvars, delayvars, eventvars, stampvars, avgvars>>

\* asyncio.sleep(actual_delay) is over: the next turn of the loop, or, with
\* the range used up, `raise last_exception`
sleep_over(c) ==
    /\ wrapper[c].pc = "sleeping"
    /\ wrapper' = [wrapper EXCEPT ![c] =
          IF wrapper[c].attempt + 1 < max_retries + 1
          THEN [@ EXCEPT !.attempt = @ + 1, !.invoked = @ + 1, !.pc = "attempting",
                         !.delay = @ * backoff_factor]
          ELSE [@ EXCEPT !.pc = "raised", !.delay = @ * backoff_factor]]
    /\ UNCHANGED <<now, cbvars, wfvars, dcvars, idvars, sinkvars, max_retries,
                   mcpvars, gemvars, delayvars, eventvars, stampvars, avgvars>>

InitRetry ==
    /\ InitTickets
    /\ mcp_client = FALSE
    /\ mcp_circuit_breaker = NewBreaker
    /\ socketio_client = "none"
    /\ max_retries \in 0..MaxRetries
    /\ base_delay \in 0..MaxBaseDelay
    /\ max_delay \in 0..MaxMaxDelay
    /\ backoff_factor \in 0..MaxBackoffFactor
    /\ agent_circuit_breakers =
          [a \in {"master_agent", "phishguard_agent"} |-> NoBreaker]
    /\ workflow_metrics = [total_processed |-> 0, successful_workflows |-> 0,
                           failed_workflows |-> 0, escalated_workflows |-> 0]
    /\ gemini_classification = NewBreaker
    /\ master_agent = TRUE
    /\ phishguard_agent = TRUE
    /\ model = TRUE
    /\ InitNoCallers

NextRetry ==
    \/ \E c \in Callers : wrapper_call(c)
    \/ \E c \in Callers : func_returns(c)
    \/ \E c \in Callers, kind \in ExceptionKinds : func_raises(c, kind)
    \/ \E c \in Callers : sleep_over(c)

SpecRetry == InitRetry /\ [][NextRetry]_vars

\* ------------------------------------------- the contain phase and its tool calls
\* what mcp_client.call_tool can do: return a result with or without a
\* 'content' entry, or raise with or without 'connection' / 'timeout' in its text
ToolOutcomes == {"ok", "empty", "connection", "other"}

\* a _safe_mcp_call that turns every exception into a RetryableError
safe_mcp_error_retry_all(kind) == "RetryableError"

\* _safe_mcp_call, lines 158-171: what it raises for an exception of the
\* breaker-wrapped call; "Circuit breaker is open for service: phishguard_mcp"
\* has neither 'connection' nor 'timeout' in it
safe_mcp_error(kind) ==
    IF kind = "connection" THEN "RetryableError"
    ELSE IF kind = "CircuitBreakerError" THEN "CircuitBreakerError"
    ELSE "ValueError"

\* contain_threat, lines 391-409: the candidate URLs (never none:
\* _extract_malicious_urls falls back to two simulated ones), then the first
\* log_action of the loop
contain_threat_begin(n) ==
    /\ contain.pc = "idle"
    /\ contain' = [contain EXCEPT !.pc = "url", !.total_urls = n, !.url = 1,
                                  !.step = "log_before"]
    /\ UNCHANGED <<now, cbvars, wfvars, dcvars, idvars, sinkvars, retryvars,
                   mcp_client, mcp_circuit_breaker, block, gemvars, delayvars,
                   eventvars, stampvars, avgvars>>

\* the summary of lines 453-461 once the loop is through
containment_summary(c) ==
    [total_urls |-> c.total_urls, successful_blocks |-> c.successful_blocks,
     failed_blocks |-> c.failed_blocks]

\* a loop that ends at the first URL that failed to block
next_url_until_failure(c) ==
    IF c.url < c.total_urls /\ c.failed_blocks = 0
    THEN [c EXCEPT !.pc = "url", !.url = @ + 1, !.step = "log_before", !.attempt = 0]
    ELSE [c EXCEPT !.pc = "done", !.step = "none", !.attempt = 0,
                   !.summary = [total_urls |-> c.total_urls,
                                successful_blocks |-> c.successful_blocks,
                                failed_blocks |-> c.failed_blocks]]

\* the loop goes to the next URL or ends
next_url(c) ==
    IF c.url < c.total_urls
    THEN [c EXCEPT !.pc = "url", !.url = @ + 1, !.step = "log_before", !.attempt = 0]
    ELSE [c EXCEPT !.pc = "done", !.step = "none", !.attempt = 0,
                   !.summary = containment_summary(c)]

\* one entry of containment_results for the URL in hand
block_recorded(c, status) ==
    [c EXCEPT !.containment_results = Append(@, [url |-> c.url, status |-> status]),
              !.successful_blocks = IF status = "blocked" THEN @ + 1 ELSE @,
              !.failed_blocks = IF status = "failed" THEN @ + 1 ELSE @]

\* a loop turn without tool channel, lines 433-441 (log_action goes to the
\* logger only)
block_unavailable ==
    /\ contain.pc = "url"
    /\ ~mcp_client
    /\ contain' = next_url(block_recorded(contain, "failed"))
    /\ UNCHANGED <<now, cbvars, wfvars, dcvars, idvars, sinkvars, retryvars,
                   mcp_client, mcp_circuit_breaker, block, gemvars, delayvars,
                   eventvars, stampvars, avgvars>>

\* the _safe_mcp_call in hand is over: log_action swallows its outcome; the
\* block call's result is read (an empty 'content' raises IndexError) and the
\* URL gets its entry, in the try or in the except clause of the loop
safe_mcp_call_over(c, outcome) ==
    IF c.step = "log_before" THEN [c EXCEPT !.pc = "url", !.step = "block"]
    ELSE IF c.step = "block"
         THEN [block_recorded(c, IF outcome = "ok" THEN "blocked" ELSE "failed")
                  EXCEPT !.pc = "url", !.step = "log_after"]
    ELSE next_url(c)

\* one attempt of the retry wrapper around _safe_mcp_call, the first one or
\* the one numbered `attempt`: the breaker's gate, then mcp_client.call_tool
safe_mcp_attempt(attempt, outcome) ==
    LET b == mcp_circuit_breaker
        rejected == call_rejected(b, now, mcp_recovery_timeout)
        b1 == call_admitted(b, now, mcp_recovery_timeout)
        kind == IF rejected THEN "CircuitBreakerError" ELSE outcome
        raised == safe_mcp_error(kind)
        returns == ~rejected /\ outcome \in {"ok", "empty"}
        blocking == contain.step = "block"
    IN  /\ mcp_circuit_breaker' =
              IF rejected THEN b
              ELSE IF returns THEN on_success(b1)
              ELSE on_failure(b1, now, mcp_failure_threshold)
        /\ block' =
              IF blocking
              THEN [block EXCEPT ![contain.url] =
                      [safe_calls |-> IF attempt = 0 THEN @.safe_calls + 1
                                      ELSE @.safe_calls,
                       tool_calls |-> IF rejected THEN @.tool_calls
                                      ELSE @.tool_calls + 1,
                       entry_open |-> IF attempt = 0 THEN rejected ELSE @.entry_open]]
              ELSE block
        /\ contain' =
              IF returns THEN safe_mcp_call_over(contain, outcome)
              ELSE IF is_retryable(raised) /\ attempt # mcp_max_retries
                   THEN [contain EXCEPT !.pc = "sleeping", !.attempt = attempt]
              ELSE safe_mcp_call_over(contain, "raised")
        /\ UNCHANGED <<now, cbvars, wfvars, dcvars, idvars, sinkvars,
                       retryvars, mcp_client, gemvars, delayvars, eventvars,
                       stampvars, avgvars>>

\* _safe_mcp_call is called, by log_action or for block_malicious_url, and
\* makes its first attempt
safe_mcp_call(outcome) ==
    /\ contain.pc = "url"
    /\ mcp_client
    /\ safe_mcp_attempt(0, outcome)

\* the retry wrapper's sleep is over and it makes the next attempt
safe_mcp_retry(outcome) ==
    /\ contain.pc = "sleeping"
    /\ safe_mcp_attempt(contain.attempt + 1, outcome)

\* a PhishGuard Agent with or without tool channel whose tool breaker has
\* `failures` earlier failed calls behind it, before a contain phase
InitContain ==
    /\ InitTickets
    /\ mcp_client \in BOOLEAN
    /\ \E failures \in 0..MaxEarlier :
          /\ failures > 0 => mcp_client
          /\ mcp_circuit_breaker =
                failed_calls(NewBreaker, failures, mcp_failure_threshold)
    /\ max_retries = 0
    /\ base_delay = default_base_delay
    /\ max_delay = default_max_delay
    /\ backoff_factor = default_backoff_factor
    /\ socketio_client = "none"
    /\ agent_circuit_breakers =
          [a \in {"master_agent", "phishguard_agent"} |-> NoBreaker]
    /\ workflow_metrics = [total_processed |-> 0, successful_workflows |-> 0,
                           failed_workflows |-> 0, escalated_workflows |-> 0]
    /\ gemini_classification = NewBreaker
    /\ master_agent = TRUE
    /\ phishguard_agent = TRUE
    /\ model = FALSE
    /\ InitNoCallers

NextContain ==
    \/ \E n \in 1..MaxUrls : contain_threat_begin(n)
    \/ block_unavailable
    \/ \E outcome \in ToolOutcomes : safe_mcp_call(outcome)
    \/ \E outcome \in ToolOutcomes : safe_mcp_retry(outcome)
    \/ Tick

SpecContain == InitContain /\ [][NextContain]_vars

\* the event loop runs every task that is ready, and every collaborator call
\* returns or raises
SpecLive == Spec /\ \A t \in Tickets : WF_vars(TaskStep(t))

TypeOK ==
    /\ \A t \in Tickets : task[t] \in HeldPcs \cup FreePcs
    /\ \A t \in Tickets : registered[t] # "none" => Registry(t).status \in Statuses
    /\ Cardinality({t \in Tickets : task[t] \in HeldPcs}) <= 1

\* ------------------------------------------------ CircuitBreaker properties
\* a call of caller c comes back in this step
Completes(c) == pc[c] = "awaiting" /\ pc'[c] = "idle"

\* the gate lets caller c through to the wrapped function in this step
PassesGate(c) == pc[c] = "idle" /\ pc'[c] = "awaiting"

InCooldown ==
    /\ cb.state = "OPEN"
    /\ cb.last_failure_time # NoTime
    /\ now - cb.last_failure_time < recovery_timeout

CooldownOver ==
    /\ cb.state = "OPEN"
    /\ cb.last_failure_time # NoTime
    /\ now - cb.last_failure_time >= recovery_timeout

\* C1: starting from a fresh CLOSED breaker, while fewer than failure_threshold
\* calls have failed (and none did anything else) the state is CLOSED, and right
\* after the failure_threshold-th consecutive failure the state is OPEN.
C1_OpensAtThreshold ==
    /\ (clean /\ consec < failure_threshold) => cb.state = "CLOSED"
    /\ (clean /\ consec = failure_threshold /\ last_event.kind = "failure")
          => cb.state = "OPEN"

C1_Witness ==
    /\ clean
    /\ consec = failure_threshold
    /\ last_event.kind = "failure"
    /\ cb.state = "OPEN"

\* C2: while the breaker is OPEN and less than recovery_timeout has elapsed since
\* last_failure_time, no call passes the gate, the wrapped function is not
\* invoked, and a rejected call leaves state, failure_count and
\* last_failure_time as they were.
C2_OpenRejects ==
    [][ InCooldown =>
          /\ \A c \in Callers : ~PassesGate(c)
          /\ invocations' = invocations
          /\ (last_event'.kind = "reject" /\ pc' = pc) => cb' = cb ]_vars

C2_Witness ==
    /\ InCooldown
    /\ last_event = [kind |-> "reject", prior |-> "OPEN"]
    /\ invocations = failure_threshold

\* C3: a call that arrives at an OPEN breaker once recovery_timeout has elapsed
\* moves it to HALF_OPEN and invokes the wrapped function, and when that call
\* succeeds the breaker is CLOSED with failure_count = 0.
C3_TrialSuccessCloses ==
    [][ \A c \in Callers :
          /\ (CooldownOver /\ pc[c] = "idle" /\ (pc' # pc \/ last_event'.kind = "reject"))
                => (PassesGate(c) => cb'.state = "HALF_OPEN" /\ invocations' = invocations + 1)
          /\ (Completes(c) /\ entry[c] = "OPEN" /\ last_event'.kind = "success")
                => (cb'.state = "CLOSED" /\ cb'.failure_count = 0) ]_vars

\* C4: a successful call through a CLOSED breaker resets failure_count to 0, and
\* a CLOSED breaker opens only on the failure_threshold-th consecutive failure.
C4_SuccessResetsCount ==
    [][ /\ (cb.state = "CLOSED" /\ last_event'.kind = "success"
              /\ \E c \in Callers : Completes(c))
           => cb'.failure_count = 0
        /\ (cb.state = "CLOSED" /\ cb'.state = "OPEN")
           => consec' >= failure_threshold ]_vars

\* C5: while the breaker is HALF_OPEN and the trial call (the one that found it
\* OPEN) is still suspended, no other caller passes the gate.
C5_SingleTrial ==
    [][ \A c \in Callers :
          (cb.state = "HALF_OPEN" /\ PassesGate(c))
             => ~\E d \in Callers : d # c /\ pc[d] = "awaiting" /\ entry[d] = "OPEN" ]_vars

\* C6: a call that fails (with an exception of the expected kind) while the
\* breaker is HALF_OPEN puts it back to OPEN with last_failure_time = the time
\* of that failure.
C6_TrialFailureReopens ==
    [][ (cb.state = "HALF_OPEN" /\ last_event'.kind = "failure"
           /\ \E c \in Callers : Completes(c))
        => (cb'.state = "OPEN" /\ cb'.last_failure_time = now) ]_vars

C6_Witness ==
    /\ last_event = [kind |-> "failure", prior |-> "HALF_OPEN"]
    /\ cb.state = "OPEN"
    /\ cb.last_failure_time = now
    /\ cb.failure_count = failure_threshold + 1

\* ------------------------------------------------ workflow properties
RegistryStatus(t) == Registry(t).status

\* the edges of the ticket state machine
Edge(a, b) ==
    \/ <<a, b>> \in {<<"received", "processing">>, <<"processing", "classified">>,
                     <<"classified", "delegating">>, <<"delegating", "working">>,
                     <<"working", "resolved">>, <<"working", "escalated">>}
    \/ (a \notin Terminal /\ b = "failed")

\* C7: every change of a ticket's status in the workflow registry follows an
\* edge of the state machine received -> processing -> classified -> delegating
\* -> working -> {resolved, escalated}, or goes from a non-terminal status to
\* failed.
C7_StatusFollowsEdges ==
    [][ \A t \in Tickets :
          (registered[t] # "none" /\ registered'[t] # "none"
             /\ RegistryStatus(t)' # RegistryStatus(t))
          => Edge(RegistryStatus(t), RegistryStatus(t)') ]_vars

C9_FailureIsReturned ==
    \A t \in Tickets :
        excepted[t] =>
            /\ task[t] = "done"
            /\ result[t].status = "failed"
            /\ result[t].error
            /\ result[t].requires_manual_intervention
            /\ RegistryStatus(t) = "failed"

\* C10: every ticket submitted with process_ticket eventually has a terminal
\* status (resolved, escalated or failed) in the registry, when every step of its
\* task that can run eventually runs.
C10_ReachesTerminal ==
    \A t \in Tickets :
        (task[t] = "scheduled") ~> (RegistryStatus(t) \in Terminal)

\* ------------------------------------------------ security protocol properties
\* process_security_ticket has returned for ticket t
ProtocolReturned(t) ==
    /\ task[t] \in {"specialist_done", "done"}
    /\ Held(t).phases_set

\* C11: when process_security_ticket has returned, the ticket's status is
\* resolved exactly when at least 2 of the 4 phases are in phases_completed and
\* escalated exactly when fewer than 2 are, for every combination of phase
\* successes and failures.
C11_TwoOfFourRule ==
    \A t \in Tickets :
        ProtocolReturned(t) =>
            /\ Len(Held(t).phases_completed) + Len(Held(t).phases_failed) = total_phases
            /\ (Held(t).status = "resolved") <=> (Len(Held(t).phases_completed) >= 2)
            /\ (Held(t).status = "escalated") <=> (Len(Held(t).phases_completed) < 2)

C11_Witness ==
    /\ \E t \in Tickets :
          /\ ProtocolReturned(t)
          /\ Len(Held(t).phases_completed) = 2
          /\ Held(t).status = "resolved"
    /\ \E t \in Tickets :
          /\ ProtocolReturned(t)
          /\ Len(Held(t).phases_completed) = 1
          /\ Held(t).status = "escalated"

\* the order in which process_security_ticket calls the phase handlers
PhaseOrder == <<"analyze", "contain", "eradicate", "document">>

IsPrefix(s, q) == Len(s) <= Len(q) /\ \A i \in 1..Len(s) : s[i] = q[i]

Range(s) == {s[i] : i \in 1..Len(s)}

NoDuplicates(s) == \A i, j \in 1..Len(s) : i # j => s[i] # s[j]

\* the phases whose handler has returned or raised
PhasesEnded(t) == Range(Held(t).phases_completed) \cup Range(Held(t).phases_failed)

\* C12: process_security_ticket calls analyze, contain, eradicate, document once
\* each and in that order whatever the earlier outcomes; a phase handler is
\* called only when every earlier one has returned or raised; every phase ends
\* up in exactly one of phases_completed and phases_failed; and when contain
\* alone fails, eradicate and document still run and the protocol returns.
C12_PhasesOnceInOrder ==
    \A t \in Tickets :
        LET att == phases_attempted[t] IN
        /\ IsPrefix(att, PhaseOrder)
        /\ \A i \in 1..Len(att) : i < Len(att) => att[i] \in PhasesEnded(t)
        /\ PhasesEnded(t) \subseteq Range(att)
        /\ NoDuplicates(Held(t).phases_completed)
        /\ NoDuplicates(Held(t).phases_failed)
        /\ Range(Held(t).phases_completed) \cap Range(Held(t).phases_failed) = {}
        /\ ProtocolReturned(t) =>
              /\ att = PhaseOrder
              /\ PhasesEnded(t) = Range(PhaseOrder)
        /\ (task[t] \in {"pg_final", "specialist_done", "done"}
              /\ "contain" \in Range(Held(t).phases_failed))
           => {"eradicate", "document"} \subseteq PhasesEnded(t)

C12_Witness ==
    \E t \in Tickets :
        /\ ProtocolReturned(t)
        /\ Held(t).phases_failed = <<"contain">>
        /\ Held(t).phases_completed = <<"analyze", "eradicate", "document">>
        /\ Held(t).status = "resolved"

\* ------------------------------------------------ classification properties
\* MasterAgent.classify_ticket was called for ticket t
ClassifyCalled(t) ==
    classified_via[t] \in {"no_model", "breaker_open", "primary", "primary_failed"}

\* C13: for a non-empty subject MasterAgent.classify_ticket returns one of the
\* two valid labels, whether the primary classifier is not configured, raises,
\* answers with an unknown label, or its circuit breaker is open.
C13_LabelAlwaysValid ==
    \A t \in Tickets :
        ClassifyCalled(t) =>
            /\ Held(t).subject \in {"keyword", "plain"}
            /\ Held(t).classification \in Labels

C13_Witness ==
    /\ \E t \in Tickets :
          classified_via[t] = "primary_failed" /\ Held(t).classification \in Labels
    /\ \E t \in Tickets :
          classified_via[t] = "breaker_open" /\ Held(t).classification \in Labels

\* the primary classification path failed for ticket t: the classifier raised or
\* answered with no valid label, or a circuit breaker in front of it was open
PrimaryPathFailed(t) ==
    classified_via[t] \in {"primary_failed", "breaker_open", "agent_breaker_open"}

\* C14: whenever the primary classification path fails for a ticket, the
\* classification stamped on the ticket is the one the local keyword rules give
\* for its subject: security if it carries a keyword, general otherwise.
C14_FallbackUsesKeywordRules ==
    \A t \in Tickets :
        PrimaryPathFailed(t) =>
            Held(t).classification = fallback_classification(Held(t).subject)

\* C15: a ticket with an empty or whitespace-only subject is never created:
\* no entry with such a subject is found in the registry of workflows.
C15_EmptySubjectNotRegistered ==
    \A t \in Tickets :
        registered[t] # "none" => Registry(t).subject # "empty"

\* C16: a call of MasterAgent.classify_ticket or PhishGuardAgent.analyze_threat
\* with a subject that is empty after trimming raises, gives no label and no
\* analysis result, and leaves the ticket dict as the caller passed it.
C16_EmptySubjectRejected ==
    \A t \in Tickets :
        (returned[t].op # "none" /\ returned[t].subject = "empty") =>
            /\ returned[t].raised
            /\ returned[t].value = "none"
            /\ heap[t].orig = IF returned[t].op = "analyze_threat"
                              THEN direct_ticket("empty") ELSE NoTicket

\* the entries of _fallback_classification's security_keywords that occur in
\* the subjects below (the list has about 130 entries)
security_keywords ==
    {"suspicious", "transfer", "wire", "ceo", "password", "account", "urgent"}

\* what a subject, as the set of its lower-case words, is to the agents
subject_class(words) ==
    IF words = {} THEN "empty"
    ELSE IF words \cap security_keywords # {} THEN "keyword"
    ELSE "plain"

\* 'Suspicious email from CEO requesting wire transfer'
ceo_wire_transfer ==
    {"suspicious", "email", "from", "ceo", "requesting", "wire", "transfer"}

\* 'Password reset request for user account'
password_reset == {"password", "reset", "request", "for", "user", "account"}

\* the workflow of ticket t is over and process_ticket_async has returned
Finished(t) == task[t] = "done"

\* ticket t carries the security keywords of the demonstration subject, came
\* without additional data, and its workflow is over; where the remote
\* classifier answered, it answered security, and the analyze and document
\* handlers did not raise
SecurityScenario(t) ==
    /\ Finished(t)
    /\ result[t].subject = subject_class(ceo_wire_transfer)
    /\ result[t].attempts_numeric
    /\ classified_via[t] = "primary" => result[t].classification = "Phishing/Security"
    /\ "analyze" \notin Range(result[t].phases_failed)
    /\ "document" \notin Range(result[t].phases_failed)

\* C17: with both agents configured, a ticket whose subject is 'Suspicious
\* email from CEO requesting wire transfer' is classified security, goes
\* through the security protocol and ends resolved or escalated with analyze
\* and document among its completed phases, also when the remote classifier
\* is not available.
C17_SecurityScenario ==
    \A t \in Tickets :
        (master_agent /\ phishguard_agent /\ SecurityScenario(t)) =>
            /\ result[t].classification = "Phishing/Security"
            /\ phases_attempted[t] # <<>>
            /\ result[t].status \in {"resolved", "escalated"}
            /\ {"analyze", "document"} \subseteq Range(result[t].phases_completed)

\* ticket t has the subject of the password-reset demonstration, came without
\* additional data, and its workflow is over; where the remote classifier
\* answered, it answered general
GeneralScenario(t) ==
    /\ Finished(t)
    /\ result[t].subject = subject_class(password_reset)
    /\ result[t].attempts_numeric
    /\ classified_via[t] = "primary" => result[t].classification = "General Inquiry"

\* C18: a ticket whose subject is 'Password reset request for user account'
\* is classified general and ends resolved through the general path, with no
\* security phase attempted and phases_completed / phases_failed never set,
\* also when the label comes from the local keyword rules.
C18_GeneralScenario ==
    \A t \in Tickets :
        (master_agent /\ phishguard_agent /\ GeneralScenario(t)) =>
            /\ result[t].classification = "General Inquiry"
            /\ result[t].status = "resolved"
            /\ phases_attempted[t] = <<>>
            /\ ~result[t].phases_set

\* the step is a call of cleanup_completed_workflows
CleanupRan == last_cleanup'.even # last_cleanup.even

\* the terminal entries with a readable 'updated_at' older than max_age_hours
Expired(max_age_hours) ==
    {t \in completed_workflows :
        updated_at_iso[t] /\ age_hours(t) > max_age_hours}

\* C19: cleanup_completed_workflows(max_age) removes exactly the terminal
\* tickets whose age exceeds max_age and returns their number; non-terminal
\* tickets and younger terminal tickets stay, and what stays is unchanged.
C19_CleanupRemovesExpired ==
    [][CleanupRan =>
          /\ \A t \in Tickets :
                registered'[t] =
                    IF t \in Expired(last_cleanup'.max_age_hours)
                    THEN "none" ELSE registered[t]
          /\ last_cleanup'.cleaned_count =
                Cardinality(Expired(last_cleanup'.max_age_hours))
          /\ heap' = heap]_vars

\* some breaker the processor owns is OPEN
AnyBreakerOpen ==
    \E a \in DOMAIN agent_circuit_breakers : agent_circuit_breakers[a].state = "OPEN"

\* failed_workflows is more than 10% of total_processed
FailuresAboveTenth ==
    10 * workflow_metrics.failed_workflows > workflow_metrics.total_processed

C21_IdsUnique ==
    /\ NoDuplicates(ids_assigned)
    /\ Cardinality({id \in TicketIds : active_ids[id] # 0}) = Len(ids_assigned)

\* process_ticket has returned the id of t and its task has not yet run
Submitted(t) == task[t] = "scheduled"

\* the task of t has run its first step (or all of them)
Started(t) == task[t] \notin {"new", "scheduled"}

\* C22: when process_ticket returns, the ticket is registered with status
\* received and no processing step has run; the scheduled processing then
\* runs once: processing_attempts is 1 and total_processed counts every
\* submitted ticket once.
C22_ScheduledOnce ==
    /\ \A t \in Tickets :
          Submitted(t) => /\ registered[t] # "none"
                          /\ Registry(t).status = "received"
                          /\ Registry(t).processing_attempts = 0
    /\ \A t \in Tickets :
          Started(t) => /\ Held(t).attempts_numeric
                        /\ Held(t).processing_attempts = 1
    /\ workflow_metrics.total_processed = Cardinality({t \in Tickets : Started(t)})

C24_BoundedRetry ==
    \A c \in Callers :
        LET w == wrapper[c] IN
        /\ w.invoked <= max_retries + 1
        /\ w.pc # "idle" =>
              w.invoked = w.failures + (IF w.pc \in {"attempting", "returned"}
                                        THEN 1 ELSE 0)
        /\ w.other => w.pc = "raised"
        /\ w.failures = max_retries + 1 => w.pc = "raised"

\* a wrapper call used every attempt it had and raised
C24_Witness ==
    /\ max_retries > 0
    /\ \E c \in Callers :
          /\ wrapper[c].pc = "raised"
          /\ wrapper[c].failures = max_retries + 1
          /\ wrapper[c].invoked = max_retries + 1

\* the block_malicious_url call of URL u is over
BlockOver(u) ==
    \/ contain.pc = "done" /\ u <= contain.total_urls
    \/ contain.pc # "idle" /\ u < contain.url
    \/ contain.pc # "idle" /\ contain.url = u /\ contain.step = "log_after"

\* the entries of containment_results for URL u
EntriesOf(u) ==
    {i \in 1..Len(contain.containment_results) : contain.containment_results[i].url = u}

\* C25: a _safe_mcp_call made while the tool breaker is OPEN and its
\* recovery_timeout has not elapsed fails at once, with no call to the tool
\* channel and no retry; the contain phase records the URL as failed and goes
\* on to the next URL and to its summary.
C25_OpenBreakerFailsFast ==
    \A u \in Urls :
        block[u].entry_open =>
            /\ block[u].tool_calls = 0
            /\ block[u].safe_calls = 1
            /\ ~(contain.pc = "sleeping" /\ contain.url = u /\ contain.step = "block")
            /\ BlockOver(u) =>
                  \E i \in EntriesOf(u) : contain.containment_results[i].status = "failed"

\* a contain phase ended whose last URL met the open breaker
C25_Witness ==
    /\ contain.pc = "done"
    /\ contain.total_urls = MaxUrls
    /\ block[MaxUrls].entry_open
    /\ Len(contain.containment_results) = MaxUrls

\* C30: when the contain phase is over, every candidate URL was attempted
\* exactly once, also after an earlier URL failed to block, has exactly one
\* entry in containment_results, with status blocked or failed, and the
\* summary has successful_blocks + failed_blocks = total_urls = number of
\* entries.
C30_EveryUrlOnce ==
    contain.pc = "done" =>
        /\ \A u \in 1..contain.total_urls :
              /\ Cardinality(EntriesOf(u)) = 1
              /\ contain.containment_results[u].url = u
              /\ contain.containment_results[u].status \in {"blocked", "failed"}
              /\ block[u].safe_calls = IF mcp_client THEN 1 ELSE 0
        /\ \A u \in Urls : u > contain.total_urls => block[u].safe_calls = 0
        /\ Len(contain.containment_results) = contain.total_urls
        /\ contain.summary.total_urls = contain.total_urls
        /\ contain.summary.successful_blocks + contain.summary.failed_blocks
              = contain.summary.total_urls
        /\ contain.summary.successful_blocks =
              Cardinality({i \in 1..Len(contain.containment_results) :
                             contain.containment_results[i].status = "blocked"})

\* a contain phase ended whose first URL failed to block and whose last URL
\* was blocked
C30_Witness ==
    /\ contain.pc = "done"
    /\ contain.total_urls = MaxUrls
    /\ contain.containment_results[1].status = "failed"
    /\ contain.containment_results[MaxUrls].status = "blocked"
    /\ block[1].tool_calls > 0

\* C26: when the primary classifier call of classify_ticket fails with a
\* retryable transient error (rate limit or network), the primary call is
\* made again by the retry wrapper before the keyword fallback is used.
C26_TransientRetried ==
    \A t \in Tickets :
        (returned[t].op = "classify_ticket" /\ classify_error[t] = "RetryableError")
            => generate_content_calls[t] > 1

\* the routing metadata MasterAgent.process_ticket stamps for a label
routing(label) ==
    IF label = "Phishing/Security"
    THEN [assigned_agent |-> "PhishGuard Agent", priority |-> "high",
          escalation_level |-> "security"]
    ELSE [assigned_agent |-> "General Support Agent", priority |-> "normal",
          escalation_level |-> "standard"]

\* C27: once a ticket has a classification, its assigned_agent, priority and
\* escalation_level are the ones of its label: PhishGuard Agent / high /
\* security for a security ticket, General Support Agent / normal / standard
\* for any other.
C27_RoutingFollowsLabel ==
    \A t \in Tickets :
        Held(t).classification # "none" =>
            /\ Held(t).assigned_agent = routing(Held(t).classification).assigned_agent
            /\ Held(t).priority = routing(Held(t).classification).priority
            /\ Held(t).escalation_level =
                  routing(Held(t).classification).escalation_level

AgentNames == {"master_agent", "phishguard_agent"}

\* C29: the TicketProcessor keeps one breaker per agent name, made on first use
\* and kept for every later ticket (it is never dropped, and what it recorded is
\* only cleared by its own recovery), and a step that records a failure or a
\* success on one breaker leaves state, failure_count and last_failure_time of
\* the other breaker as they were.
C29_BreakersIndependent ==
    [][ \A a \in AgentNames :
           LET b == agent_circuit_breakers[a]
               c == agent_circuit_breakers'[a] IN
           /\ b # c => \A o \in AgentNames \ {a} :
                          agent_circuit_breakers'[o] = agent_circuit_breakers[o]
           /\ b # NoBreaker => c # NoBreaker
           /\ (b # NoBreaker /\ b.last_failure_time # NoTime)
                 => c.last_failure_time # NoTime
           /\ (b.failure_count > 0 /\ c.failure_count < b.failure_count)
                 => (b.state \in {"OPEN", "HALF_OPEN"} /\ c.state = "CLOSED")
      ]_vars

\* both breakers exist, the master_agent one has a failure on record from one
\* ticket and has served another ticket since, the phishguard_agent one has none
C29_Witness ==
    /\ agent_circuit_breakers["master_agent"].failure_count = 1
    /\ agent_circuit_breakers["phishguard_agent"] # NoBreaker
    /\ agent_circuit_breakers["phishguard_agent"].failure_count = 0
    /\ \A t \in Tickets : task[t] = "done"
    /\ \E t \in Tickets : classified_via[t] = "empty_subject"

RECURSIVE Power(_, _)
Power(x, k) == IF k = 0 THEN 1 ELSE x * Power(x, k - 1)

\* C31: the delay slept before retry number k (k = 0 for the first retry) is
\* min(base_delay * backoff_factor^k, max_delay); no delay exceeds max_delay,
\* the delays are non-decreasing when backoff_factor >= 1, and no delay is
\* slept after the final attempt.
C31_CappedBackoff ==
    \A c \in Callers :
        LET w == wrapper[c] IN
        /\ \A i \in 1..Len(w.slept) :
              /\ w.slept[i] =
                    actual_delay(base_delay * Power(backoff_factor, i - 1), max_delay)
              /\ w.slept[i] <= max_delay
              /\ (backoff_factor >= 1 /\ i > 1) => w.slept[i - 1] <= w.slept[i]
        /\ Len(w.slept) <= max_retries
        /\ Len(w.slept) = IF w.pc = "sleeping" THEN w.invoked
                          ELSE IF w.invoked = 0 THEN 0 ELSE w.invoked - 1

\* a call that used up its retries, slept growing delays and met the cap
C31_Witness ==
    \E c \in Callers :
        /\ wrapper[c].pc = "raised"
        /\ max_retries = MaxRetries
        /\ Len(wrapper[c].slept) = MaxRetries
        /\ wrapper[c].slept[1] < wrapper[c].slept[2]
        /\ wrapper[c].slept[MaxRetries] = max_delay
        /\ base_delay * Power(backoff_factor, MaxRetries - 1) > max_delay

\* C32: in every reachable state total_processed is at least
\* successful_workflows + failed_workflows + escalated_workflows, and once every
\* started process_ticket_async run has returned the two sides are equal.
C32_CountersConsistent ==
    LET m == workflow_metrics
        outcomes == m.successful_workflows + m.failed_workflows + m.escalated_workflows
    IN  /\ m.total_processed >= outcomes
        /\ (\A t \in Tickets : task[t] \in {"new", "done"}) => m.total_processed = outcomes

\* the place of a workflow status in the order received, processing,
\* classified, delegating, working, terminal
StatusRank(status) ==
    CASE status = "received" -> 0
      [] status = "processing" -> 1
      [] status = "classified" -> 2
      [] status = "delegating" -> 3
      [] status = "working" -> 4
      [] OTHER -> 5

\* C33: the events the TicketProcessor emits for one ticket are in causal
\* order: the creation event (status received) is the first, and no event with
\* an earlier status follows one with a later status in the order received,
\* processing, classified, delegating, working, terminal, whatever the other
\* tickets' tasks do in between.
C33_EventsInCausalOrder ==
    \A t \in Tickets :
        /\ emitted[t] # <<>> => emitted[t][1] = "received"
        /\ \A i, j \in 1..Len(emitted[t]) :
              i < j => StatusRank(emitted[t][i]) <= StatusRank(emitted[t][j])
        /\ \A i \in 1..Len(emitted[t]) :
              emitted[t][i] \in {"received", "processing", "classified", "delegating",
                                 "working"} \cup Terminal

\* the second ticket went through the security path to its end, all its events
\* delivered, while the first ticket's task was still under way
C33_Witness ==
    /\ task[2] = "done"
    /\ \E i \in 1..Len(emitted[2]) : emitted[2][i] = "working"
    /\ emitted[2][Len(emitted[2])] \in Terminal
    /\ task[1] \notin {"new", "done", "raised"}
    /\ Len(emitted[1]) >= 2
    /\ Len(emitted[1]) < Len(emitted[2])

\* the phase whose result map is stored under each key
ResultPhase ==
    [analysis_results |-> "analyze", containment_results |-> "contain",
     eradication_results |-> "eradicate", remediation_summary |-> "document"]

\* the analyze, contain, eradicate or document phase has started for ticket t
Attempted(t, phase) ==
    \E i \in 1..Len(phases_attempted[t]) : phases_attempted[t][i] = phase

\* a dict of ticket t carries the result map stored under `key`
Carries(t, key) == heap[t].orig[key] \/ heap[t].copy[key]

\* C34: a ticket carries analysis_results, containment_results,
\* eradication_results or remediation_summary only once the analyze, contain,
\* eradicate or document phase has started for it; tickets on the general path
\* carry none of them.
C34_NoResultBeforePhase ==
    \A t \in Tickets : \A key \in DOMAIN ResultPhase :
        Carries(t, key) => Attempted(t, ResultPhase[key])

\* C35: in every reachable state of a breaker, with callers overlapping: OPEN
\* implies failure_count >= failure_threshold and a last_failure_time; CLOSED
\* implies failure_count < failure_threshold; failure_count is never negative.
C35_BreakerStateInvariant ==
    /\ cb.state \in {"CLOSED", "OPEN", "HALF_OPEN"}
    /\ cb.state = "OPEN" =>
          (cb.failure_count >= failure_threshold /\ cb.last_failure_time # NoTime)
    /\ cb.state = "CLOSED" => cb.failure_count < failure_threshold
    /\ cb.failure_count >= 0

\* the breaker has recovered once and is open again, more failures counted
\* than the threshold, while a call admitted before is still suspended
C35_Witness ==
    /\ cb.state = "OPEN"
    /\ cb.failure_count > failure_threshold
    /\ \E c \in Callers : pc[c] = "awaiting" /\ entry[c] # "OPEN"
    /\ clean = FALSE

\* C36: when the trial call of a HALF_OPEN breaker has finished, by returning,
\* by raising an exception of the expected kinds or by raising one outside
\* them, the breaker is CLOSED or OPEN.
C36_TrialLeavesHalfOpen ==
    [][ \A c \in Callers :
           (Completes(c) /\ entry[c] = "OPEN") => cb'.state \in {"CLOSED", "OPEN"}
      ]_vars

\* C37: cleanup_completed_workflows, run while a ticket's process_ticket_async
\* is in flight, never removes that ticket: a ticket leaves the registry only
\* after its run has returned, and a ticket that has left the registry never
\* reappears in it.
C37_InFlightNotRemoved ==
    [][ \A t \in Tickets :
           /\ (CleanupRan /\ registered[t] # "none" /\ registered'[t] = "none")
                 => task[t] \in {"done", "raised"}
           /\ (registered[t] = "none" /\ task[t] # "new")
                 => registered'[t] = "none"
      ]_vars

\* C38: the classification and routing of a ticket depend only on its subject
\* and on the classifier's answer for it, not on earlier tickets: a classified
\* ticket whose subject carries a security keyword is classified security and
\* routed to the PhishGuard Agent, unless the classifier itself answered
\* otherwise for it, however many empty-subject tickets came before.
C38_RoutingIgnoresEarlierTickets ==
    \A t \in Tickets :
        (master_agent /\ classified_via[t] # "none" /\ Held(t).subject = "keyword")
            => \/ classified_via[t] = "primary"
               \/ /\ Held(t).classification = "Phishing/Security"
                  /\ Held(t).assigned_agent = "PhishGuard Agent"

\* C39: the phases_completed list inside remediation_summary names only phases
\* that completed for the ticket: it never lists a phase recorded in the
\* ticket's phases_failed.
C39_SummaryListsCompletedPhases ==
    \A t \in Tickets :
        Held(t).remediation_summary =>
            Range(Held(t).summary_phases_completed) \cap Range(Held(t).phases_failed) = {}

\* C40: finishing a ticket whose final status is escalated or failed leaves
\* average_processing_time and successful_workflows unchanged;
\* average_processing_time changes only when a ticket finishes resolved, and
\* then equals the mean processing time of all resolved tickets so far.
C40_AverageOfResolvedOnly ==
    [][ /\ (\/ workflow_metrics'.escalated_workflows # workflow_metrics.escalated_workflows
            \/ workflow_metrics'.failed_workflows # workflow_metrics.failed_workflows)
           => /\ average_processing_time' = average_processing_time
              /\ workflow_metrics'.successful_workflows =
                    workflow_metrics.successful_workflows
        /\ average_processing_time' # average_processing_time
           => workflow_metrics'.successful_workflows #
                 workflow_metrics.successful_workflows
        /\ workflow_metrics'.successful_workflows # workflow_metrics.successful_workflows
           => average_processing_time'.num * workflow_metrics'.successful_workflows
                 = resolved_time' * average_processing_time'.den
      ]_vars

====
